---- MODULE Spec2Model ----
(***************************************************************************)
(* State-machine model of the meeting scheduler of cweb.c.                 *)
(*                                                                         *)
(* The C program keeps one MeetingScheduler struct and mutates it through  *)
(* reserve_slot, add_meeting and init_scheduler, one request at a time.    *)
(*                                                                         *)
(* Hours are doubles in the C code and are always multiples of 0.5; the    *)
(* model stores every hour quantity as an integer number of HALF HOURS     *)
(* (value * 2), so 17.0 is 34 and the 2.5 h/week cap compares meeting     *)
(* half hours / 4 with 5.  The search's avg_hours / valid_weeks quotient   *)
(* is a multiple of 0.25 and is kept in QUARTER hours (value * 4).         *)
(* Arrays are indexed from 0 as in C, except the label tables and the      *)
(* preferred_hours list, which are TLA+ sequences (index + 1).             *)
(***************************************************************************)
EXTENDS Integers, Sequences, FiniteSets, TLC

VARIABLES scheduler, last, pre, ops

vars == <<scheduler, last, pre, ops>>

---------------------------------------------------------------------------
(* Program constants *)

MAX_DAYS == 4
MAX_WEEKS == 4
MAX_SLOTS == 14
PREF_LEN == 8
MAX_RESERVATIONS == 50
MAX_MEETINGS == 100

DAYS == <<"Monday", "Tuesday", "Wednesday", "Thursday">>

TIME_SLOTS ==
    <<"09:00", "09:30", "10:00", "10:30", "11:00", "11:30",
      "13:00", "13:30", "14:00", "14:30", "15:00", "15:30",
      "16:00", "16:30">>

BREAK_SLOTS == <<"12:00", "12:30">>

Weeks == 0 .. (MAX_WEEKS - 1)
DayIdx == 0 .. (MAX_DAYS - 1)
SlotIdx == 0 .. (MAX_SLOTS - 1)

---------------------------------------------------------------------------
(* Helper functions *)

find_slot_index(time) ==
    IF \E i \in SlotIdx : TIME_SLOTS[i + 1] = time
    THEN CHOOSE i \in SlotIdx : TIME_SLOTS[i + 1] = time
    ELSE -1

find_day_index(day) ==
    IF \E i \in DayIdx : DAYS[i + 1] = day
    THEN CHOOSE i \in DayIdx : DAYS[i + 1] = day
    ELSE -1

is_break_slot(time) == time = BREAK_SLOTS[1] \/ time = BREAK_SLOTS[2]

\* slot_to_hour without the hour skipped at the break
slot_to_hour_NoBreakSkip(slot_idx) ==
    LET hour == (slot_idx \div 2) + 9
        minute == (slot_idx % 2) * 30
    IN  2 * hour + (minute \div 30)

\* slot index -> wall-clock time, in half hours (9:00 is 18, 13:00 is 26)
slot_to_hour(slot_idx) ==
    LET hour0 == (slot_idx \div 2) + 9
        minute == (slot_idx % 2) * 30
        hour == IF slot_idx >= 6 THEN hour0 + 1 ELSE hour0
    IN  2 * hour + (minute \div 30)

\* 17.0 hours, in half hours
END_OF_DAY == 34

---------------------------------------------------------------------------
(* The scheduler struct *)

NoBlocks == [w \in Weeks |-> [d \in DayIdx |-> [t \in SlotIdx |-> FALSE]]]
NoHours == [d \in DayIdx |-> 0]

\* contents of the MeetingScheduler stack object before init_scheduler runs
Uninitialized ==
    { [schedule |-> <<>>, reservations |-> <<>>,
       total_hours |-> NoHours, meeting_hours |-> NoHours,
       blocked_slots |-> NoBlocks],
      [schedule |-> <<>>, reservations |-> <<>>,
       total_hours |-> [d \in DayIdx |-> 7], meeting_hours |-> [d \in DayIdx |-> 3],
       blocked_slots |-> [w \in Weeks |-> [d \in DayIdx |-> [t \in SlotIdx |-> TRUE]]]] }

\* init_scheduler without the memset of blocked_slots
init_scheduler_KeepsGrid(s) ==
    [s EXCEPT !.schedule = <<>>,
              !.reservations = <<>>,
              !.total_hours = NoHours,
              !.meeting_hours = NoHours]

init_scheduler(s) ==
    [s EXCEPT !.schedule = <<>>,
              !.reservations = <<>>,
              !.total_hours = NoHours,
              !.meeting_hours = NoHours,
              !.blocked_slots = NoBlocks]

---------------------------------------------------------------------------
(* reserve_slot *)

\* the input check without its duration part
ReserveArgsValid_NoDuration(day_idx, start_idx, duration_minutes) ==
    ~ (day_idx = -1 \/ start_idx = -1)

ReserveArgsValid(day_idx, start_idx, duration_minutes) ==
    ~ (day_idx = -1 \/ start_idx = -1 \/
       (duration_minutes % 30 # 0) \/ duration_minutes < 30 \/ duration_minutes > 90)

\* the two range checks made before the grid is touched
ReserveRangeOk(start_time, start_idx, duration_slots) ==
    LET end_hour == slot_to_hour(start_idx) + duration_slots
    IN  /\ ~ (end_hour > END_OF_DAY \/ is_break_slot(start_time))
        /\ \A i \in 0 .. (duration_slots - 1) :
              ~ (start_idx + i >= MAX_SLOTS \/ is_break_slot(TIME_SLOTS[start_idx + i + 1]))

\* the check-and-book loop: k = week * duration_slots + i walks the cells in
\* the order of the nested for loops; a blocked cell ends the call, and the
\* cells booked before it stay booked
\* the check-and-book loop with week < MAX_WEEKS - 1 as its bound
RECURSIVE reserve_scan_OneWeekShort(_, _, _, _, _)
reserve_scan_OneWeekShort(blocked, day_idx, start_idx, duration_slots, k) ==
    IF k >= (MAX_WEEKS - 1) * duration_slots
    THEN [blocked |-> blocked, ok |-> TRUE]
    ELSE LET week == k \div duration_slots
             slot_idx == start_idx + (k % duration_slots)
         IN  IF blocked[week][day_idx][slot_idx]
             THEN [blocked |-> blocked, ok |-> FALSE]
             ELSE reserve_scan_OneWeekShort(
                      [blocked EXCEPT ![week][day_idx][slot_idx] = TRUE],
                      day_idx, start_idx, duration_slots, k + 1)

\* the check-and-book loop walking the slots of a week from the last to the first
RECURSIVE reserve_scan_LastSlotFirst(_, _, _, _, _)
reserve_scan_LastSlotFirst(blocked, day_idx, start_idx, duration_slots, k) ==
    IF k >= MAX_WEEKS * duration_slots
    THEN [blocked |-> blocked, ok |-> TRUE]
    ELSE LET week == k \div duration_slots
             slot_idx == start_idx + duration_slots - 1 - (k % duration_slots)
         IN  IF blocked[week][day_idx][slot_idx]
             THEN [blocked |-> blocked, ok |-> FALSE]
             ELSE reserve_scan_LastSlotFirst(
                      [blocked EXCEPT ![week][day_idx][slot_idx] = TRUE],
                      day_idx, start_idx, duration_slots, k + 1)

RECURSIVE reserve_scan(_, _, _, _, _)
reserve_scan(blocked, day_idx, start_idx, duration_slots, k) ==
    IF k >= MAX_WEEKS * duration_slots
    THEN [blocked |-> blocked, ok |-> TRUE]
    ELSE LET week == k \div duration_slots
             slot_idx == start_idx + (k % duration_slots)
         IN  IF blocked[week][day_idx][slot_idx]
             THEN [blocked |-> blocked, ok |-> FALSE]
             ELSE reserve_scan([blocked EXCEPT ![week][day_idx][slot_idx] = TRUE],
                               day_idx, start_idx, duration_slots, k + 1)

\* reserve_slot adding the hours of one week only to the day's load
reserve_slot_OneWeekLoad(s, day, start_time, duration_minutes) ==
    LET day_idx == find_day_index(day)
        start_idx == find_slot_index(start_time)
        duration_slots == duration_minutes \div 30
    IN  IF ~ ReserveArgsValid(day_idx, start_idx, duration_minutes)
        THEN [s |-> s, ret |-> FALSE]
        ELSE IF ~ ReserveRangeOk(start_time, start_idx, duration_slots)
        THEN [s |-> s, ret |-> FALSE]
        ELSE LET scan == reserve_scan(s.blocked_slots, day_idx, start_idx, duration_slots, 0)
             IN  IF ~ scan.ok
                 THEN [s |-> [s EXCEPT !.blocked_slots = scan.blocked], ret |-> FALSE]
                 ELSE [s |-> [s EXCEPT
                                !.blocked_slots = scan.blocked,
                                !.reservations = Append(@, [day |-> day,
                                                            start_time |-> start_time,
                                                            duration |-> duration_slots]),
                                !.total_hours[day_idx] = @ + duration_slots],
                       ret |-> TRUE]

\* returns the new struct and the return value
reserve_slot(s, day, start_time, duration_minutes) ==
    LET day_idx == find_day_index(day)
        start_idx == find_slot_index(start_time)
        duration_slots == duration_minutes \div 30
    IN  IF ~ ReserveArgsValid(day_idx, start_idx, duration_minutes)
        THEN [s |-> s, ret |-> FALSE]
        ELSE IF ~ ReserveRangeOk(start_time, start_idx, duration_slots)
        THEN [s |-> s, ret |-> FALSE]
        ELSE LET scan == reserve_scan(s.blocked_slots, day_idx, start_idx, duration_slots, 0)
             IN  IF ~ scan.ok
                 THEN [s |-> [s EXCEPT !.blocked_slots = scan.blocked], ret |-> FALSE]
                 ELSE [s |-> [s EXCEPT
                                !.blocked_slots = scan.blocked,
                                !.reservations = Append(@, [day |-> day,
                                                            start_time |-> start_time,
                                                            duration |-> duration_slots]),
                                !.total_hours[day_idx] = @ + duration_slots * MAX_WEEKS],
                       ret |-> TRUE]

---------------------------------------------------------------------------
(* is_valid_slot *)

\* is_valid_slot without the blocked_slots test
is_valid_slot_IgnoresBlocked(s, week, day_idx, start_idx, duration_slots) ==
    IF start_idx < 0 \/ start_idx >= MAX_SLOTS
    THEN FALSE
    ELSE IF is_break_slot(TIME_SLOTS[start_idx + 1])
    THEN FALSE
    ELSE IF slot_to_hour(start_idx) + duration_slots > END_OF_DAY
    THEN FALSE
    ELSE \A i \in 0 .. (duration_slots - 1) :
            LET slot_idx == start_idx + i
            IN  ~ (slot_idx >= MAX_SLOTS
                   \/ is_break_slot(TIME_SLOTS[slot_idx + 1]))

is_valid_slot(s, week, day_idx, start_idx, duration_slots) ==
    IF start_idx < 0 \/ start_idx >= MAX_SLOTS
    THEN FALSE
    ELSE IF is_break_slot(TIME_SLOTS[start_idx + 1])
    THEN FALSE
    ELSE IF slot_to_hour(start_idx) + duration_slots > END_OF_DAY
    THEN FALSE
    ELSE \A i \in 0 .. (duration_slots - 1) :
            LET slot_idx == start_idx + i
            IN  ~ (slot_idx >= MAX_SLOTS
                   \/ is_break_slot(TIME_SLOTS[slot_idx + 1])
                   \/ s.blocked_slots[week][day_idx][slot_idx])

---------------------------------------------------------------------------
(* add_meeting: set-up *)

\* the occurrence count with weekly counted as 3
occurrences_of_WeeklyThree(frequency) ==
    IF frequency = "weekly" THEN 3
    ELSE IF frequency = "fortnightly" THEN 2
    ELSE IF frequency = "third_week" THEN 1 ELSE 1

\* the occurrence count with third_week counted as 3
occurrences_of_ThirdWeekThree(frequency) ==
    IF frequency = "weekly" THEN 4
    ELSE IF frequency = "fortnightly" THEN 2
    ELSE IF frequency = "third_week" THEN 3 ELSE 1

occurrences_of(frequency) ==
    IF frequency = "weekly" THEN 4
    ELSE IF frequency = "fortnightly" THEN 2
    ELSE IF frequency = "third_week" THEN 1 ELSE 1

fixed_day_idx_of(meeting) ==
    IF meeting.fixed_day # "" THEN find_day_index(meeting.fixed_day) ELSE -1

\* the fixed time never looked up
fixed_time_idx_of_Ignored(meeting) == -1

fixed_time_idx_of(meeting) ==
    IF meeting.fixed_time # "" THEN find_slot_index(meeting.fixed_time) ELSE -1

\* the compare-and-swap positions j of the bubble sort, in execution order
BubbleSteps ==
    LET RECURSIVE pass(_, _)
        pass(i, j) ==
            IF i >= MAX_DAYS - 1 THEN <<>>
            ELSE IF j >= MAX_DAYS - i - 1 THEN pass(i + 1, 0)
            ELSE <<j>> \o pass(i, j + 1)
    IN  pass(0, 0)

\* day_order[0..3]: the days sorted by total_hours, least busy first
day_order_of(total_hours) ==
    LET RECURSIVE sort(_, _)
        sort(order, n) ==
            IF n > Len(BubbleSteps) THEN order
            ELSE LET j == BubbleSteps[n]
                 IN  IF total_hours[order[j]] > total_hours[order[j + 1]]
                     THEN sort([order EXCEPT ![j] = order[j + 1], ![j + 1] = order[j]], n + 1)
                     ELSE sort(order, n + 1)
    IN  sort([i \in DayIdx |-> i], 1)

\* the pairs of adjacent weeks
fortnight_pairs_Adjacent == << <<0, 1>>, <<2, 3>> >>

fortnight_pairs == << <<0, 2>>, <<1, 3>> >>

max_pairs_of(frequency) == IF frequency = "fortnightly" THEN 2 ELSE 1

\* no day is ever over the cap
OverMeetingCap_Off(s, day_idx) == FALSE

\* the 2.5 hours per week cap on a day's meeting load (meeting_hours / 4 > 2.5)
OverMeetingCap(s, day_idx) == s.meeting_hours[day_idx] > 4 * 5

\* the days the d loop visits and does not skip, in visiting order
DayCandidates(s, meeting) ==
    LET fixed_day_idx == fixed_day_idx_of(meeting)
        day_order == day_order_of(s.total_hours)
        visited == IF fixed_day_idx >= 0
                   THEN <<fixed_day_idx>>
                   ELSE [d \in 1 .. MAX_DAYS |-> day_order[d - 1]]
    IN  SelectSeq(visited, LAMBDA day_idx : ~ OverMeetingCap(s, day_idx))

\* length of the preferred list: entries before the first negative one
PreferredCount(preferred_hours) ==
    LET RECURSIVE count(_)
        count(n) == IF n < PREF_LEN /\ preferred_hours[n + 1] >= 0
                    THEN count(n + 1) ELSE n
    IN  count(0)

\* the start slots tried when the preferred list is never looked at
TimeCandidates_ListIgnored(meeting) ==
    LET fixed_time_idx == fixed_time_idx_of(meeting)
    IN  IF fixed_time_idx >= 0 THEN <<fixed_time_idx>>
        ELSE [n \in 1 .. MAX_SLOTS |-> n - 1]

\* the start slots the t loop tries, in trying order
TimeCandidates(meeting) ==
    LET fixed_time_idx == fixed_time_idx_of(meeting)
        time_end == IF fixed_time_idx >= 0 THEN fixed_time_idx + 1
                    ELSE IF meeting.preferred_hours[1] >= 0
                    THEN PreferredCount(meeting.preferred_hours)
                    ELSE MAX_SLOTS
        time_start == IF fixed_time_idx >= 0 THEN fixed_time_idx ELSE 0
        last_t == (IF time_end < MAX_SLOTS THEN time_end ELSE MAX_SLOTS) - 1
        tried == [n \in 1 .. (last_t - time_start + 1) |->
                    LET t == time_start + n - 1
                    IN  IF fixed_time_idx >= 0 THEN fixed_time_idx
                        ELSE IF meeting.preferred_hours[1] >= 0
                        THEN meeting.preferred_hours[t + 1]
                        ELSE t]
    IN  SelectSeq(tried, LAMBDA time_idx : ~ (time_idx < 0 \/ time_idx >= MAX_SLOTS))

---------------------------------------------------------------------------
(* add_meeting: search phase *)

\* the initial min_hours, 1e9: larger than every quotient a day's load can
\* give (a day holds at most 4 * 14 booked half hours); 2000000000 quarter
\* hours keeps it inside the 32-bit integers of TLC
MIN_HOURS_INIT == 2000000000

\* valid_weeks and avg_hours (half hours) of one (p, day, time) candidate
EvaluateCandidate(s, meeting, p, day_idx, time_idx) ==
    LET duration_slots == meeting.duration
        occurrences == occurrences_of(meeting.frequency)
        RECURSIVE scan(_, _, _)
        scan(w, valid_weeks, avg_hours) ==
            IF w >= MAX_WEEKS THEN [valid_weeks |-> valid_weeks, avg_hours |-> avg_hours]
            ELSE LET hit == is_valid_slot(s, w, day_idx, time_idx, duration_slots)
                     v == IF hit THEN valid_weeks + 1 ELSE valid_weeks
                     a == IF hit THEN avg_hours + s.total_hours[day_idx] + duration_slots
                          ELSE avg_hours
                 IN  IF v >= occurrences
                     THEN [valid_weeks |-> v, avg_hours |-> a]
                     ELSE scan(w + 1, v, a)
    IN  IF meeting.frequency = "fortnightly"
        THEN LET week1 == fortnight_pairs[p + 1][1]
                 week2 == fortnight_pairs[p + 1][2]
             IN  IF is_valid_slot(s, week1, day_idx, time_idx, duration_slots)
                    /\ is_valid_slot(s, week2, day_idx, time_idx, duration_slots)
                 THEN [valid_weeks |-> 2,
                       avg_hours |-> s.total_hours[day_idx] + duration_slots]
                 ELSE [valid_weeks |-> 0, avg_hours |-> 0]
        ELSE scan(0, 0, 0)

\* the test with one valid week taken as enough
Qualifies_AnyWeek(valid_weeks, avg_hours, occurrences, min_hours) ==
    /\ valid_weeks >= 1
    /\ (2 * avg_hours) \div valid_weeks < min_hours

\* the test with <= for <: a later candidate with the same quotient wins
Qualifies_LastWins(valid_weeks, avg_hours, occurrences, min_hours) ==
    /\ valid_weeks >= occurrences
    /\ (2 * avg_hours) \div valid_weeks <= min_hours

\* the test that lets a candidate replace the best one found so far
Qualifies(valid_weeks, avg_hours, occurrences, min_hours) ==
    /\ valid_weeks >= occurrences
    /\ (2 * avg_hours) \div valid_weeks < min_hours

\* The three search loops.  Each takes its loop state as one record: the
\* loop counter together with min_hours, chosen_day and chosen_time so far.

NoChoice == [min_hours |-> MIN_HOURS_INIT, chosen_day |-> -1, chosen_time |-> -1]

\* one pass of the t loop body that forgets to lower min_hours
TryTime_KeepsMinHours(s, meeting, p, day_idx, time_idx, best) ==
    LET e == EvaluateCandidate(s, meeting, p, day_idx, time_idx)
    IN  IF Qualifies(e.valid_weeks, e.avg_hours,
                     occurrences_of(meeting.frequency), best.min_hours)
        THEN [min_hours |-> best.min_hours,
              chosen_day |-> day_idx,
              chosen_time |-> time_idx]
        ELSE best

\* one pass of the t loop body
TryTime(s, meeting, p, day_idx, time_idx, best) ==
    LET e == EvaluateCandidate(s, meeting, p, day_idx, time_idx)
    IN  IF Qualifies(e.valid_weeks, e.avg_hours,
                     occurrences_of(meeting.frequency), best.min_hours)
        THEN [min_hours |-> (2 * e.avg_hours) \div e.valid_weeks,
              chosen_day |-> day_idx,
              chosen_time |-> time_idx]
        ELSE best

\* the t loop of one day
RECURSIVE SearchTimes(_, _, _, _, _, _)
SearchTimes(s, meeting, p, day_idx, times, st) ==
    IF st.n > Len(times) THEN st.best
    ELSE SearchTimes(s, meeting, p, day_idx, times,
                     [n |-> st.n + 1,
                      best |-> TryTime(s, meeting, p, day_idx, times[st.n], st.best)])

\* the d loop of one pairing
RECURSIVE SearchDays(_, _, _, _, _, _)
SearchDays(s, meeting, p, days, times, st) ==
    IF st.n > Len(days) THEN st.best
    ELSE SearchDays(s, meeting, p, days, times,
                    [n |-> st.n + 1,
                     best |-> SearchTimes(s, meeting, p, days[st.n], times,
                                          [n |-> 1, best |-> st.best])])

\* the p loop
RECURSIVE SearchPairs(_, _, _, _, _)
SearchPairs(s, meeting, days, times, st) ==
    IF st.p >= max_pairs_of(meeting.frequency) THEN st.best
    ELSE SearchPairs(s, meeting, days, times,
                     [p |-> st.p + 1,
                      best |-> SearchDays(s, meeting, st.p, days, times,
                                          [n |-> 1, best |-> st.best])])

\* chosen_day and chosen_time after the search loops (-1, -1 when none)
Search(s, meeting) ==
    SearchPairs(s, meeting, DayCandidates(s, meeting), TimeCandidates(meeting),
                [p |-> 0, best |-> NoChoice])

---------------------------------------------------------------------------
(* add_meeting: commit phase *)

\* one occurrence whose booking rewrites the whole day of the week
CommitEntry_ResetsDay(s, meeting, week, chosen_day, chosen_time) ==
    LET duration_slots == meeting.duration
        entry == [week |-> week, day |-> chosen_day, start_time |-> chosen_time,
                  name |-> meeting.name, type |-> meeting.type,
                  duration |-> duration_slots, frequency |-> meeting.frequency]
    IN  [s EXCEPT
           !.schedule = Append(@, entry),
           !.total_hours[chosen_day] = @ + duration_slots,
           !.meeting_hours[chosen_day] = @ + duration_slots,
           !.blocked_slots[week][chosen_day] =
               [t \in SlotIdx |-> t >= chosen_time /\ t < chosen_time + duration_slots]]

\* one occurrence that is not counted in the day's meeting load
CommitEntry_TotalOnly(s, meeting, week, chosen_day, chosen_time) ==
    LET duration_slots == meeting.duration
        entry == [week |-> week, day |-> chosen_day, start_time |-> chosen_time,
                  name |-> meeting.name, type |-> meeting.type,
                  duration |-> duration_slots, frequency |-> meeting.frequency]
    IN  [s EXCEPT
           !.schedule = Append(@, entry),
           !.total_hours[chosen_day] = @ + duration_slots,
           !.blocked_slots[week][chosen_day] =
               [t \in SlotIdx |->
                   IF t >= chosen_time /\ t < chosen_time + duration_slots
                   THEN TRUE ELSE @[t]]]

\* one occurrence whose booking loop runs to j <= duration_slots
CommitEntry_OneSlotMore(s, meeting, week, chosen_day, chosen_time) ==
    LET duration_slots == meeting.duration
        entry == [week |-> week, day |-> chosen_day, start_time |-> chosen_time,
                  name |-> meeting.name, type |-> meeting.type,
                  duration |-> duration_slots, frequency |-> meeting.frequency]
    IN  [s EXCEPT
           !.schedule = Append(@, entry),
           !.total_hours[chosen_day] = @ + duration_slots,
           !.meeting_hours[chosen_day] = @ + duration_slots,
           !.blocked_slots[week][chosen_day] =
               [t \in SlotIdx |->
                   IF t >= chosen_time /\ t <= chosen_time + duration_slots
                   THEN TRUE ELSE @[t]]]

\* one occurrence written over the last entry of the ledger when there is one
CommitEntry_OverwritesLast(s, meeting, week, chosen_day, chosen_time) ==
    LET duration_slots == meeting.duration
        entry == [week |-> week, day |-> chosen_day, start_time |-> chosen_time,
                  name |-> meeting.name, type |-> meeting.type,
                  duration |-> duration_slots, frequency |-> meeting.frequency]
    IN  [s EXCEPT
           !.schedule = IF Len(@) = 0 THEN <<entry>> ELSE [@ EXCEPT ![Len(@)] = entry],
           !.total_hours[chosen_day] = @ + duration_slots,
           !.meeting_hours[chosen_day] = @ + duration_slots,
           !.blocked_slots[week][chosen_day] =
               [t \in SlotIdx |->
                   IF t >= chosen_time /\ t < chosen_time + duration_slots
                   THEN TRUE ELSE @[t]]]

\* one occurrence: the new ScheduleEntry, the two loads and the booked slots
CommitEntry(s, meeting, week, chosen_day, chosen_time) ==
    LET duration_slots == meeting.duration
        entry == [week |-> week, day |-> chosen_day, start_time |-> chosen_time,
                  name |-> meeting.name, type |-> meeting.type,
                  duration |-> duration_slots, frequency |-> meeting.frequency]
    IN  [s EXCEPT
           !.schedule = Append(@, entry),
           !.total_hours[chosen_day] = @ + duration_slots,
           !.meeting_hours[chosen_day] = @ + duration_slots,
           !.blocked_slots[week][chosen_day] =
               [t \in SlotIdx |->
                   IF t >= chosen_time /\ t < chosen_time + duration_slots
                   THEN TRUE ELSE @[t]]]

\* the re-scan stopping after the pairing {0,2}
CommitFortnightly_FirstPairOnly(s, meeting, chosen_day, chosen_time) ==
    LET duration_slots == meeting.duration
        PairValid(p) ==
            /\ is_valid_slot(s, fortnight_pairs[p + 1][1], chosen_day, chosen_time, duration_slots)
            /\ is_valid_slot(s, fortnight_pairs[p + 1][2], chosen_day, chosen_time, duration_slots)
    IN  IF ~ PairValid(0)
        THEN [s |-> s, ret |-> FALSE]
        ELSE LET s1 == CommitEntry(s, meeting, fortnight_pairs[1][1], chosen_day, chosen_time)
                 s2 == CommitEntry(s1, meeting, fortnight_pairs[1][2], chosen_day, chosen_time)
             IN  [s |-> s2, ret |-> TRUE]

CommitFortnightly(s, meeting, chosen_day, chosen_time) ==
    LET duration_slots == meeting.duration
        PairValid(p) ==
            /\ is_valid_slot(s, fortnight_pairs[p + 1][1], chosen_day, chosen_time, duration_slots)
            /\ is_valid_slot(s, fortnight_pairs[p + 1][2], chosen_day, chosen_time, duration_slots)
    IN  IF ~ \E p \in 0 .. 1 : PairValid(p)
        THEN [s |-> s, ret |-> FALSE]
        ELSE LET chosen_pair == IF PairValid(0) THEN 0 ELSE 1
                 s1 == CommitEntry(s, meeting, fortnight_pairs[chosen_pair + 1][1],
                                   chosen_day, chosen_time)
                 s2 == CommitEntry(s1, meeting, fortnight_pairs[chosen_pair + 1][2],
                                   chosen_day, chosen_time)
             IN  [s |-> s2, ret |-> TRUE]

\* the shuffle that swaps every week with itself
Shuffle_NoSwap(rands) ==
    LET RECURSIVE swap(_, _)
        swap(weeks, i) ==
            IF i <= 0 THEN weeks
            ELSE LET j == i
                 IN  swap([weeks EXCEPT ![i] = weeks[j], ![j] = weeks[i]], i - 1)
    IN  swap([w \in Weeks |-> w], MAX_WEEKS - 1)

\* the shuffle that copies weeks[j] to weeks[i] and never writes temp back
Shuffle_LosesTemp(rands) ==
    LET RECURSIVE swap(_, _)
        swap(weeks, i) ==
            IF i <= 0 THEN weeks
            ELSE LET j == rands[MAX_WEEKS - i] % (i + 1)
                 IN  swap([weeks EXCEPT ![i] = weeks[j]], i - 1)
    IN  swap([w \in Weeks |-> w], MAX_WEEKS - 1)

\* weeks[0..3] after the shuffle; rands are the three values rand() returns
Shuffle(rands) ==
    LET RECURSIVE swap(_, _)
        swap(weeks, i) ==
            IF i <= 0 THEN weeks
            ELSE LET j == rands[MAX_WEEKS - i] % (i + 1)
                 IN  swap([weeks EXCEPT ![i] = weeks[j], ![j] = weeks[i]], i - 1)
    IN  swap([w \in Weeks |-> w], MAX_WEEKS - 1)

CommitShuffled(s, meeting, chosen_day, chosen_time, rands) ==
    LET duration_slots == meeting.duration
        occurrences == occurrences_of(meeting.frequency)
        weeks == Shuffle(rands)
        RECURSIVE place(_, _, _)
        place(cur, assigned_weeks, occ) ==
            IF occ >= occurrences THEN [s |-> cur, ret |-> TRUE]
            ELSE LET Found(w) ==
                         /\ ~ assigned_weeks[weeks[w]]
                         /\ is_valid_slot(cur, weeks[w], chosen_day, chosen_time, duration_slots)
                 IN  IF ~ \E w \in Weeks : Found(w)
                     THEN [s |-> cur, ret |-> FALSE]
                     ELSE LET w0 == CHOOSE w \in Weeks :
                                       Found(w) /\ \A v \in Weeks : Found(v) => w <= v
                              week == weeks[w0]
                          IN  place(CommitEntry(cur, meeting, week, chosen_day, chosen_time),
                                    [assigned_weeks EXCEPT ![week] = TRUE],
                                    occ + 1)
    IN  place(s, [w \in Weeks |-> FALSE], 0)

\* the part of add_meeting after the search loops
Commit(s, meeting, found, rands) ==
    IF found.chosen_day = -1 \/ found.chosen_time = -1
    THEN [s |-> s, ret |-> FALSE]
    ELSE IF meeting.frequency = "fortnightly"
    THEN CommitFortnightly(s, meeting, found.chosen_day, found.chosen_time)
    ELSE CommitShuffled(s, meeting, found.chosen_day, found.chosen_time, rands)

\* returns the new struct and the return value
add_meeting(s, meeting, rands) == Commit(s, meeting, Search(s, meeting), rands)

---------------------------------------------------------------------------
(* scheduler_web.c (src/unnamed/part_000): the same scheduler before the   *)
(* fortnightly pairing was added.  Its find_slot_index, find_day_index,    *)
(* is_break_slot, slot_to_hour and is_valid_slot have the text of cweb.c's *)
(* and are modelled by the operators above.                                *)

web_init_scheduler(s) ==
    [s EXCEPT !.schedule = <<>>,
              !.reservations = <<>>,
              !.total_hours = NoHours,
              !.meeting_hours = NoHours,
              !.blocked_slots = NoBlocks]

\* the check-and-book loop of reserve_slot: week by week, slot by slot, a
\* blocked cell ends the call and the cells booked before it stay booked
RECURSIVE web_reserve_scan(_, _, _, _, _, _)
web_reserve_scan(blocked, day_idx, start_idx, duration_slots, week, i) ==
    IF week >= MAX_WEEKS THEN [ok |-> TRUE, blocked |-> blocked]
    ELSE IF i >= duration_slots
    THEN web_reserve_scan(blocked, day_idx, start_idx, duration_slots, week + 1, 0)
    ELSE IF blocked[week][day_idx][start_idx + i]
    THEN [ok |-> FALSE, blocked |-> blocked]
    ELSE web_reserve_scan([blocked EXCEPT ![week][day_idx][start_idx + i] = TRUE],
                          day_idx, start_idx, duration_slots, week, i + 1)

\* returns the new struct and the return value
web_reserve_slot(s, day, start_time, duration_minutes) ==
    LET day_idx == find_day_index(day)
        start_idx == find_slot_index(start_time)
        duration_slots == duration_minutes \div 30
        end_hour == slot_to_hour(start_idx) + duration_slots
    IN  IF day_idx = -1 \/ start_idx = -1 \/ duration_minutes % 30 # 0
           \/ duration_minutes < 30 \/ duration_minutes > 90
        THEN [s |-> s, ret |-> FALSE]
        ELSE IF end_hour > END_OF_DAY \/ is_break_slot(start_time)
        THEN [s |-> s, ret |-> FALSE]
        ELSE IF \E i \in 0 .. (duration_slots - 1) :
                   start_idx + i >= MAX_SLOTS \/ is_break_slot(TIME_SLOTS[start_idx + i + 1])
        THEN [s |-> s, ret |-> FALSE]
        ELSE LET scan == web_reserve_scan(s.blocked_slots, day_idx, start_idx,
                                          duration_slots, 0, 0)
             IN  IF ~ scan.ok
                 THEN [s |-> [s EXCEPT !.blocked_slots = scan.blocked], ret |-> FALSE]
                 ELSE [s |-> [s EXCEPT
                                !.blocked_slots = scan.blocked,
                                !.reservations = Append(@, [day |-> day,
                                                            start_time |-> start_time,
                                                            duration |-> duration_slots]),
                                !.total_hours[day_idx] = @ + duration_slots * MAX_WEEKS],
                       ret |-> TRUE]

\* 4 for weekly, 2 for fortnightly, 1 for every other string
web_occurrences_of(frequency) ==
    IF frequency = "weekly" THEN 4
    ELSE IF frequency = "fortnightly" THEN 2
    ELSE 1

\* the days the d loop visits and does not skip: d runs from 0 to
\* day_end - day_start
web_DayCandidates(s, meeting) ==
    LET fixed_day_idx == fixed_day_idx_of(meeting)
        day_order == day_order_of(s.total_hours)
        day_start == IF fixed_day_idx >= 0 THEN fixed_day_idx ELSE 0
        day_end == IF fixed_day_idx >= 0 THEN fixed_day_idx + 1 ELSE MAX_DAYS
        visited == [d \in 1 .. (day_end - day_start) |->
                      IF fixed_day_idx >= 0 THEN fixed_day_idx ELSE day_order[d - 1]]
    IN  SelectSeq(visited, LAMBDA day_idx : ~ (s.meeting_hours[day_idx] > 4 * 5))

\* valid_weeks and avg_hours (half hours) of one (day, time) candidate: the
\* ww loop stops at the first week that makes valid_weeks reach occurrences
web_EvaluateCandidate(s, meeting, day_idx, time_idx) ==
    LET duration_slots == meeting.duration
        occurrences == web_occurrences_of(meeting.frequency)
        RECURSIVE scan(_)
        scan(st) ==
            IF st.ww >= MAX_WEEKS THEN st
            ELSE LET hit == is_valid_slot(s, st.ww, day_idx, time_idx, duration_slots)
                     v == IF hit THEN st.valid_weeks + 1 ELSE st.valid_weeks
                     a == IF hit THEN st.avg_hours + s.total_hours[day_idx] + duration_slots
                          ELSE st.avg_hours
                 IN  IF v >= occurrences
                     THEN [ww |-> st.ww, valid_weeks |-> v, avg_hours |-> a]
                     ELSE scan([ww |-> st.ww + 1, valid_weeks |-> v, avg_hours |-> a])
    IN  scan([ww |-> 0, valid_weeks |-> 0, avg_hours |-> 0])

\* one pass of the t loop body; min_hours is kept in quarter hours
web_TryTime(s, meeting, day_idx, time_idx, best) ==
    LET e == web_EvaluateCandidate(s, meeting, day_idx, time_idx)
    IN  IF e.valid_weeks >= web_occurrences_of(meeting.frequency)
           /\ (2 * e.avg_hours) \div e.valid_weeks < best.min_hours
        THEN [min_hours |-> (2 * e.avg_hours) \div e.valid_weeks,
              chosen_day |-> day_idx,
              chosen_time |-> time_idx]
        ELSE best

\* the t loop of one day
RECURSIVE web_SearchTimes(_, _, _, _, _)
web_SearchTimes(s, meeting, day_idx, times, st) ==
    IF st.n > Len(times) THEN st.best
    ELSE web_SearchTimes(s, meeting, day_idx, times,
                         [n |-> st.n + 1,
                          best |-> web_TryTime(s, meeting, day_idx, times[st.n], st.best)])

\* the d loop
RECURSIVE web_SearchDays(_, _, _, _, _)
web_SearchDays(s, meeting, days, times, st) ==
    IF st.n > Len(days) THEN st.best
    ELSE web_SearchDays(s, meeting, days, times,
                        [n |-> st.n + 1,
                         best |-> web_SearchTimes(s, meeting, days[st.n], times,
                                                  [n |-> 1, best |-> st.best])])

\* the w loop: the d and t loops are run MAX_WEEKS times over, w itself is
\* not used in the body
RECURSIVE web_SearchWeeks(_, _, _, _, _)
web_SearchWeeks(s, meeting, days, times, st) ==
    IF st.w >= MAX_WEEKS THEN st.best
    ELSE web_SearchWeeks(s, meeting, days, times,
                         [w |-> st.w + 1,
                          best |-> web_SearchDays(s, meeting, days, times,
                                                  [n |-> 1, best |-> st.best])])

\* chosen_day and chosen_time after the search loops (-1, -1 when none)
web_Search(s, meeting) ==
    web_SearchWeeks(s, meeting, web_DayCandidates(s, meeting), TimeCandidates(meeting),
                    [w |-> 0, best |-> NoChoice])

\* the part of add_meeting after the search loops, for every frequency: each
\* occurrence takes the first week of the shuffled order that is not yet
\* assigned and is free
web_Commit(s, meeting, found, weeks) ==
    LET duration_slots == meeting.duration
        occurrences == web_occurrences_of(meeting.frequency)
        chosen_day == found.chosen_day
        chosen_time == found.chosen_time
        Block(blocked, week) ==
            [blocked EXCEPT ![week][chosen_day] =
                [t \in SlotIdx |->
                    IF t >= chosen_time /\ t < chosen_time + duration_slots
                    THEN TRUE ELSE @[t]]]
        RECURSIVE place(_)
        place(st) ==
            IF st.occ >= occurrences THEN [s |-> st.cur, ret |-> TRUE]
            ELSE LET Found(w) ==
                         /\ ~ st.assigned_weeks[weeks[w]]
                         /\ is_valid_slot(st.cur, weeks[w], chosen_day, chosen_time,
                                          duration_slots)
                 IN  IF ~ \E w \in Weeks : Found(w)
                     THEN [s |-> st.cur, ret |-> FALSE]
                     ELSE LET w0 == CHOOSE w \in Weeks :
                                       Found(w) /\ \A v \in Weeks : Found(v) => w <= v
                              week == weeks[w0]
                              entry == [week |-> week, day |-> chosen_day,
                                        start_time |-> chosen_time,
                                        name |-> meeting.name, type |-> meeting.type,
                                        duration |-> duration_slots,
                                        frequency |-> meeting.frequency]
                          IN  place([occ |-> st.occ + 1,
                                     assigned_weeks |-> [st.assigned_weeks EXCEPT ![week] = TRUE],
                                     cur |-> [st.cur EXCEPT
                                                !.schedule = Append(@, entry),
                                                !.total_hours[chosen_day] = @ + duration_slots,
                                                !.meeting_hours[chosen_day] = @ + duration_slots,
                                                !.blocked_slots = Block(@, week)]])
    IN  IF chosen_day = -1 \/ chosen_time = -1
        THEN [s |-> s, ret |-> FALSE]
        ELSE place([occ |-> 0, assigned_weeks |-> [w \in Weeks |-> FALSE], cur |-> s])

\* returns the new struct and the return value; the weeks are shuffled
\* before the search
web_add_meeting(s, meeting, rands) ==
    web_Commit(s, meeting, web_Search(s, meeting), Shuffle(rands))

---------------------------------------------------------------------------
(* GET /addMeeting: from the query parameters to the Meeting struct *)

\* A form is a function from the names of the parameters that are present to
\* their values; MHD_lookup_connection_value gives NULL for the others.  The
\* duration is a string of decimal digits, kept as the sequence of its digits;
\* preferred_times is kept as the sequence of its comma-separated tokens.
Has(form, key) == key \in DOMAIN form

\* atoi of a string of digits
atoi(digits) ==
    LET RECURSIVE value(_, _)
        value(n, acc) == IF n > Len(digits) THEN acc
                         ELSE value(n + 1, 10 * acc + digits[n])
    IN  value(1, 0)

\* minutes to slots: 30, 60 and 90 are converted, every other number is 1,
\* and without the parameter the field keeps the 0 of the memset
duration_of(form) ==
    IF ~ Has(form, "duration") THEN 0
    ELSE LET dur == atoi(form["duration"])
         IN  IF dur = 30 THEN 1
             ELSE IF dur = 60 THEN 2
             ELSE IF dur = 90 THEN 3
             ELSE 1

\* the tokens that name a slot, in order, at most 8, then -1
preferred_hours_of(form) ==
    LET tokens == IF Has(form, "preferred_times") THEN form["preferred_times"] ELSE <<>>
        RECURSIVE fill(_, _)
        fill(n, st) ==
            IF n > Len(tokens) \/ st.idx >= PREF_LEN THEN st.pref
            ELSE LET slot == find_slot_index(tokens[n])
                 IN  IF slot # -1
                     THEN fill(n + 1, [idx |-> st.idx + 1,
                                       pref |-> [st.pref EXCEPT ![st.idx + 1] = slot]])
                     ELSE fill(n + 1, st)
    IN  fill(1, [idx |-> 0, pref |-> [i \in 1 .. PREF_LEN |-> -1]])

\* a string parameter copied into the zeroed struct when it is present
text_of(form, key) == IF Has(form, key) THEN form[key] ELSE ""

parse_meeting(form) ==
    [name |-> text_of(form, "name"),
     type |-> text_of(form, "type"),
     duration |-> duration_of(form),
     preferred_hours |-> preferred_hours_of(form),
     fixed_day |-> text_of(form, "fixed_day"),
     fixed_time |-> text_of(form, "fixed_time"),
     frequency |-> text_of(form, "frequency")]

---------------------------------------------------------------------------
(* Requests and the state machine *)

\* number of requests served in a behaviour
MaxOps == 2

\* A request that leaves the struct as it was leads to no scheduler value
\* that was not reachable without it, so behaviours are not continued past
\* one: the set of reachable (pre, last, scheduler) triples is the same.
Continue == last.op = "init" \/ scheduler # pre

NoPreference == [i \in 1 .. PREF_LEN |-> -1]

NoMeeting ==
    [name |-> "", type |-> "", duration |-> 0, preferred_hours |-> NoPreference,
     fixed_day |-> "", fixed_time |-> "", frequency |-> ""]

\* the reservation requests tried: recognized and unrecognized labels, good
\* and bad durations, a start next to the break and the last start of the day
ReserveInputs ==
    ({"Monday"} \X {"09:00", "09:30", "11:30", "16:30", "12:00"} \X {30, 60, 90, 45})
        \cup {<<"Friday", "09:00", 30>>, <<"Monday", "08:00", 30>>,
              <<"Monday", "09:00", 120>>, <<"Monday", "09:00", 0>>}

\* a preferred list holding the one slot 09:00
PreferNine == [i \in 1 .. PREF_LEN |-> IF i = 1 THEN 0 ELSE -1]

\* the meeting requests tried: no constraint, fixed day and time, and fixed
\* day with a preferred list
MeetingInputs ==
    { [name |-> "Sync", type |-> "Design", duration |-> d,
       preferred_hours |-> fx[3],
       fixed_day |-> fx[1], fixed_time |-> fx[2], frequency |-> f] :
         d \in {1, 2},
         fx \in {<<"", "", NoPreference>>,
                 <<"Monday", "09:00", NoPreference>>,
                 <<"Monday", "", PreferNine>>},
         f \in {"weekly", "fortnightly", "monthly"} }

\* the rand() results tried for the three shuffle steps; the resulting week
\* orders are 0123 and 1230
RandInputs == {<<3, 2, 1>>, <<0, 0, 0>>}

Init ==
    /\ \E garbage \in Uninitialized : scheduler = init_scheduler(garbage)
    /\ pre = scheduler
    /\ last = [op |-> "init", day |-> "", start_time |-> "", duration_minutes |-> 0,
               meeting |-> NoMeeting, ret |-> TRUE]
    /\ ops = 0

\* GET /addReservation
AddReservation ==
    /\ ops < MaxOps /\ Continue
    /\ \E in \in ReserveInputs :
          LET r == reserve_slot(scheduler, in[1], in[2], in[3])
          IN  /\ scheduler' = r.s
              /\ last' = [op |-> "reserve", day |-> in[1], start_time |-> in[2],
                          duration_minutes |-> in[3], meeting |-> NoMeeting, ret |-> r.ret]
    /\ pre' = scheduler
    /\ ops' = ops + 1

\* GET /addMeeting
AddMeeting ==
    /\ ops < MaxOps /\ Continue
    /\ \E meeting \in MeetingInputs :
          \* the search does not depend on rand(): it is evaluated once
          LET found == Search(scheduler, meeting)
          IN  \E rands \in RandInputs :
                LET r == Commit(scheduler, meeting, found, rands)
                IN  /\ scheduler' = r.s
                    /\ last' = [op |-> "add_meeting", day |-> "", start_time |-> "",
                                duration_minutes |-> 0, meeting |-> meeting,
                                ret |-> r.ret]
    /\ pre' = scheduler
    /\ ops' = ops + 1

\* GET /clearSession
ClearSession ==
    /\ ops < MaxOps /\ Continue
    /\ scheduler' = init_scheduler(scheduler)
    /\ last' = [op |-> "clear", day |-> "", start_time |-> "", duration_minutes |-> 0,
                meeting |-> NoMeeting, ret |-> TRUE]
    /\ pre' = scheduler
    /\ ops' = ops + 1

Next == AddReservation \/ AddMeeting \/ ClearSession

Spec == Init /\ [][Next]_vars

---------------------------------------------------------------------------
(* Longer sessions with fewer kinds of request *)

\* GET /addReservation of a session of at most bound requests
ReserveRequest(inputs, bound) ==
    /\ ops < bound /\ Continue
    /\ \E in \in inputs :
          LET r == reserve_slot(scheduler, in[1], in[2], in[3])
          IN  /\ scheduler' = r.s
              /\ last' = [op |-> "reserve", day |-> in[1], start_time |-> in[2],
                          duration_minutes |-> in[3], meeting |-> NoMeeting, ret |-> r.ret]
    /\ pre' = scheduler
    /\ ops' = ops + 1

\* GET /addMeeting of a session of at most bound requests
MeetingRequest(forms, randoms, bound) ==
    /\ ops < bound /\ Continue
    /\ \E form \in forms :
          LET meeting == parse_meeting(form)
              found == Search(scheduler, meeting)
          IN  \E rands \in randoms :
                LET r == Commit(scheduler, meeting, found, rands)
                IN  /\ scheduler' = r.s
                    /\ last' = [op |-> "add_meeting", day |-> "", start_time |-> "",
                                duration_minutes |-> 0, meeting |-> meeting,
                                ret |-> r.ret]
    /\ pre' = scheduler
    /\ ops' = ops + 1

\* GET /clearSession of a session of at most bound requests
ClearRequest(bound) ==
    /\ ops < bound /\ Continue
    /\ scheduler' = init_scheduler(scheduler)
    /\ last' = [op |-> "clear", day |-> "", start_time |-> "", duration_minutes |-> 0,
                meeting |-> NoMeeting, ret |-> TRUE]
    /\ pre' = scheduler
    /\ ops' = ops + 1

Thirty == <<3, 0>>
Sixty == <<6, 0>>
Ninety == <<9, 0>>

\* Sessions that load Monday: weekly and monthly 90-minute meetings on
\* Monday, a fortnightly meeting on Monday at 09:00, a weekly meeting at 13:00
\* on the least busy day, and two 90-minute reservations on Monday morning
MaxCapOps == 6

CapForms ==
    { [name |-> "Planning", type |-> "Ops", duration |-> Ninety,
       fixed_day |-> "Monday", frequency |-> "weekly"],
      [name |-> "Review", type |-> "Ops", duration |-> Ninety,
       fixed_day |-> "Monday", frequency |-> "monthly"],
      [name |-> "Retro", type |-> "Ops", duration |-> Thirty,
       fixed_day |-> "Monday", fixed_time |-> "09:00", frequency |-> "fortnightly"],
      [name |-> "Standup", type |-> "Ops", duration |-> Thirty,
       fixed_time |-> "13:00", frequency |-> "weekly"] }

CapReserveInputs == {<<"Monday", "09:00", 90>>, <<"Monday", "10:30", 90>>}

\* rand() results that give the week order 3120
CapRands == {<<0, 2, 1>>}

CapMeeting == MeetingRequest(CapForms, CapRands, MaxCapOps)

CapReservation == ReserveRequest(CapReserveInputs, MaxCapOps)

NextCap == CapMeeting \/ CapReservation

SpecCap == Init /\ [][NextCap]_vars

\* Sessions of meetings that compete for 13:00: a monthly, a weekly and a
\* fortnightly meeting at 13:00 on the least busy day, and a fortnightly
\* 60-minute meeting on Monday with the preferred times 16:30, 13:00, 09:00
MaxTieOps == 5

TieForms ==
    { [name |-> "Review", type |-> "Ops", duration |-> Thirty,
       fixed_time |-> "13:00", frequency |-> "monthly"],
      [name |-> "Standup", type |-> "Ops", duration |-> Thirty,
       fixed_time |-> "13:00", frequency |-> "weekly"],
      [name |-> "Retro", type |-> "Ops", duration |-> Thirty,
       fixed_time |-> "13:00", frequency |-> "fortnightly"],
      [name |-> "Demo", type |-> "Ops", duration |-> Sixty,
       preferred_times |-> <<"16:30", "13:00", "09:00">>,
       fixed_day |-> "Monday", frequency |-> "fortnightly"] }

TieMeeting == MeetingRequest(TieForms, RandInputs, MaxTieOps)

NextTie == TieMeeting

SpecTie == Init /\ [][NextTie]_vars

\* Sessions of forms with missing or unusable parameters: a day that is not
\* a working day, a break label as fixed time, no duration, a duration that
\* is not 30, 60 or 90, and a preferred list with a break label and a start
\* too late for the duration
MaxFormOps == 3

FormForms ==
    { [name |-> "Offsite", type |-> "Ops", duration |-> <<4, 5>>,
       fixed_day |-> "Friday", frequency |-> "weekly"],
      [name |-> "Lunch", type |-> "Ops", duration |-> Thirty,
       fixed_day |-> "Monday", fixed_time |-> "12:00", frequency |-> "monthly"],
      [name |-> "Ping", type |-> "Ops",
       fixed_day |-> "Monday", fixed_time |-> "13:00", frequency |-> "fortnightly"],
      [name |-> "Workshop", type |-> "Ops", duration |-> Sixty,
       preferred_times |-> <<"16:30", "12:00", "10:00", "09:00">>,
       fixed_day |-> "Monday", frequency |-> "weekly"],
      [name |-> "Retro", type |-> "Ops", duration |-> Thirty,
       fixed_time |-> "09:00", frequency |-> "fortnightly"] }

FormMeeting == MeetingRequest(FormForms, RandInputs, MaxFormOps)

FormClear == ClearRequest(MaxFormOps)

NextForm == FormMeeting \/ FormClear

SpecForm == Init /\ [][NextForm]_vars

\* Sessions of meetings that meet on Monday at 09:00 and have to find their
\* weeks there: single-occurrence meetings (monthly and third_week, 30 and 60
\* minutes) and recurring ones (a fortnightly meeting at 09:00 and a weekly
\* meeting on Monday at any time).  The server answers the requests it is
\* sent: a session does not stop while a request can still be served.
MaxCommitOps == 3

CommitSingleForms ==
    { [name |-> "Review", type |-> "Ops", duration |-> Thirty,
       fixed_day |-> "Monday", fixed_time |-> "09:00", frequency |-> "monthly"],
      [name |-> "Review", type |-> "Ops", duration |-> Thirty,
       fixed_day |-> "Monday", fixed_time |-> "09:00", frequency |-> "third_week"],
      [name |-> "Audit", type |-> "Ops", duration |-> Sixty,
       fixed_day |-> "Monday", fixed_time |-> "09:00", frequency |-> "monthly"] }

CommitRecurringForms ==
    { [name |-> "Retro", type |-> "Ops", duration |-> Thirty,
       fixed_day |-> "Monday", fixed_time |-> "09:00", frequency |-> "fortnightly"],
      [name |-> "Standup", type |-> "Ops", duration |-> Thirty,
       fixed_day |-> "Monday", frequency |-> "weekly"] }

\* rand() results that give the week orders 0123, 1230, 3120 and 2103
CommitRands == {<<3, 2, 1>>, <<0, 0, 0>>, <<0, 2, 1>>, <<3, 0, 1>>}

\* GET /addMeeting of a session of at most bound requests, with the Meeting
\* struct, the search result and the result of the commit phase bound one
\* after the other, as the handler computes them
MeetingServed(forms, randoms, bound) ==
    /\ ops < bound /\ Continue
    /\ \E form \in forms :
         \E meeting \in {parse_meeting(form)} :
           \E found \in {Search(scheduler, meeting)} :
             \E rands \in randoms :
               \E r \in {Commit(scheduler, meeting, found, rands)} :
                  /\ scheduler' = r.s
                  /\ last' = [op |-> "add_meeting", day |-> "", start_time |-> "",
                              duration_minutes |-> 0, meeting |-> meeting,
                              ret |-> r.ret]
    /\ pre' = scheduler
    /\ ops' = ops + 1

CommitSingle == MeetingServed(CommitSingleForms, CommitRands, MaxCommitOps)

CommitRecurring == MeetingRequest(CommitRecurringForms, CommitRands, MaxCommitOps)

NextCommit == CommitSingle \/ CommitRecurring

SpecCommit == Init /\ [][NextCommit]_vars /\ WF_vars(CommitSingle)

\* Sessions that mix the three kinds of request: reservations on Monday
\* morning that overlap (09:00 for 60 minutes, 09:30 for 30 minutes) and one
\* on Tuesday at 16:30, a weekly meeting on the least busy day, a 60-minute
\* monthly meeting on Monday, a fortnightly meeting on Monday at 09:00, a
\* monthly meeting on Tuesday sent without a duration, and clearSession
MaxLedgerOps == 3

LedgerForms ==
    { [name |-> "Standup", type |-> "Ops", duration |-> Thirty, frequency |-> "weekly"],
      [name |-> "Audit", type |-> "Ops", duration |-> Sixty,
       fixed_day |-> "Monday", frequency |-> "monthly"],
      [name |-> "Retro", type |-> "Ops", duration |-> Thirty,
       fixed_day |-> "Monday", fixed_time |-> "09:00", frequency |-> "fortnightly"],
      [name |-> "Ping", type |-> "Ops",
       fixed_day |-> "Tuesday", fixed_time |-> "09:00", frequency |-> "monthly"] }

LedgerReserveInputs ==
    {<<"Monday", "09:00", 60>>, <<"Monday", "09:30", 30>>, <<"Tuesday", "16:30", 30>>}

LedgerMeeting == MeetingRequest(LedgerForms, RandInputs, MaxLedgerOps)

LedgerReservation == ReserveRequest(LedgerReserveInputs, MaxLedgerOps)

LedgerClear == ClearRequest(MaxLedgerOps)

NextLedger == LedgerMeeting \/ LedgerReservation \/ LedgerClear

SpecLedger == Init /\ [][NextLedger]_vars

\* Sessions of a client that reserves the calendar half hour by half hour:
\* its request number n (from 0) asks for 30 minutes at slot n % 14 of day
\* n \div 14.  Among its first requests it may also clear the session.  A
\* reservation written past the end of the reservations array leaves the
\* struct in no defined state: sessions are followed up to the first such
\* write, not beyond.
MaxFillOps == 51

MaxFillClears == 4

FillInput(n) ==
    <<DAYS[((n \div MAX_SLOTS) % MAX_DAYS) + 1], TIME_SLOTS[(n % MAX_SLOTS) + 1], 30>>

FillReservation ==
    /\ Len(scheduler.reservations) <= MAX_RESERVATIONS
    /\ ReserveRequest({FillInput(ops)}, MaxFillOps)

FillClear == ops < MaxFillClears /\ ClearRequest(MaxFillOps)

NextFill == FillReservation \/ FillClear

SpecFill == Init /\ [][NextFill]_vars

\* Sessions in which the two phases of one caller's add_meeting are separate
\* steps: the search loops run, then requests of other callers may be served
\* on the same struct, then the commit phase runs with the chosen_day and
\* chosen_time the search left.  While a placement is between its phases
\* `last` holds its Meeting struct, the result of its search and the grid the
\* search read, and other callers' requests leave `last` and `pre` alone.
\* The caller asks for a weekly meeting on Monday, at 09:00 or at any time;
\* the other callers ask for a monthly and a fortnightly meeting and a
\* reservation on Monday at 09:00.
MaxRaceOps == 5

RaceForms ==
    { [name |-> "Standup", type |-> "Ops", duration |-> Thirty,
       fixed_day |-> "Monday", fixed_time |-> "09:00", frequency |-> "weekly"],
      [name |-> "Sync", type |-> "Ops", duration |-> Sixty,
       fixed_day |-> "Monday", frequency |-> "weekly"] }

OtherForms ==
    { [name |-> "Review", type |-> "Ops", duration |-> Thirty,
       fixed_day |-> "Monday", fixed_time |-> "09:00", frequency |-> "monthly"],
      [name |-> "Retro", type |-> "Ops", duration |-> Thirty,
       fixed_day |-> "Monday", fixed_time |-> "09:00", frequency |-> "fortnightly"] }

OtherReserveInputs == {<<"Monday", "09:00", 30>>}

BetweenPhases == last.op = "searched"

\* add_meeting up to the end of the search loops
SearchPhase ==
    /\ ops < MaxRaceOps /\ ~ BetweenPhases /\ Continue
    /\ \E form \in RaceForms :
          LET meeting == parse_meeting(form)
          IN  last' = [op |-> "searched", day |-> "", start_time |-> "",
                       duration_minutes |-> 0, meeting |-> meeting, ret |-> FALSE,
                       found |-> Search(scheduler, meeting),
                       read |-> scheduler.blocked_slots]
    /\ scheduler' = scheduler
    /\ pre' = scheduler
    /\ ops' = ops + 1

\* another caller's GET /addReservation, served between the two phases
BetweenReservation ==
    /\ ops < MaxRaceOps /\ BetweenPhases
    /\ \E in \in OtherReserveInputs :
          scheduler' = reserve_slot(scheduler, in[1], in[2], in[3]).s
    /\ UNCHANGED <<last, pre>>
    /\ ops' = ops + 1

\* another caller's GET /addMeeting, served between the two phases
BetweenMeeting ==
    /\ ops < MaxRaceOps /\ BetweenPhases
    /\ \E form \in OtherForms, rands \in RandInputs :
          scheduler' = add_meeting(scheduler, parse_meeting(form), rands).s
    /\ UNCHANGED <<last, pre>>
    /\ ops' = ops + 1

\* add_meeting from the test of chosen_day and chosen_time to its return
CommitPhase ==
    /\ BetweenPhases
    /\ \E rands \in RandInputs :
          LET r == Commit(scheduler, last.meeting, last.found, rands)
          IN  /\ scheduler' = r.s
              /\ last' = [last EXCEPT !.op = "add_meeting", !.ret = r.ret]
    /\ pre' = scheduler
    /\ ops' = ops

\* requests of the other callers while no placement is between its phases
RaceMeeting == ~ BetweenPhases /\ MeetingRequest(OtherForms, RandInputs, MaxRaceOps)

RaceReservation == ~ BetweenPhases /\ ReserveRequest(OtherReserveInputs, MaxRaceOps)

NextRace ==
    \/ SearchPhase \/ BetweenReservation \/ BetweenMeeting \/ CommitPhase
    \/ RaceMeeting \/ RaceReservation

SpecRace == Init /\ [][NextRace]_vars

\* Sessions served by scheduler_web.c: a weekly meeting at 09:00 on the least
\* busy day, a monthly 60-minute meeting on Tuesday with the preferred times
\* 09:30 and 09:00, a third_week 90-minute meeting on Monday at 09:00, a
\* fortnightly meeting on Monday at 09:00, two reservations that can be
\* made and three that cannot (no such day, past 17:00, a break label), and
\* clear
MaxWebOps == 3

WebForms ==
    { [name |-> "Standup", type |-> "Ops", duration |-> Thirty,
       fixed_time |-> "09:00", frequency |-> "weekly"],
      [name |-> "Review", type |-> "Ops", duration |-> Sixty,
       preferred_times |-> <<"09:30", "09:00">>,
       fixed_day |-> "Tuesday", frequency |-> "monthly"],
      [name |-> "Audit", type |-> "Ops", duration |-> Ninety,
       fixed_day |-> "Monday", fixed_time |-> "09:00", frequency |-> "third_week"],
      [name |-> "Retro", type |-> "Ops", duration |-> Thirty,
       fixed_day |-> "Monday", fixed_time |-> "09:00", frequency |-> "fortnightly"] }

WebReserveInputs ==
    { <<"Monday", "09:00", 30>>, <<"Tuesday", "09:30", 60>>,
      <<"Friday", "09:00", 30>>, <<"Monday", "16:30", 60>>, <<"Monday", "12:00", 30>> }

\* scheduler_web.c's main: the struct after init_scheduler
InitWeb ==
    /\ \E garbage \in Uninitialized : scheduler = web_init_scheduler(garbage)
    /\ pre = scheduler
    /\ last = [op |-> "init", day |-> "", start_time |-> "", duration_minutes |-> 0,
               meeting |-> NoMeeting, ret |-> TRUE]
    /\ ops = 0

\* GET /addReservation
WebReservation ==
    /\ ops < MaxWebOps /\ Continue
    /\ \E in \in WebReserveInputs :
          LET r == web_reserve_slot(scheduler, in[1], in[2], in[3])
          IN  /\ scheduler' = r.s
              /\ last' = [op |-> "reserve", day |-> in[1], start_time |-> in[2],
                          duration_minutes |-> in[3], meeting |-> NoMeeting, ret |-> r.ret]
    /\ pre' = scheduler
    /\ ops' = ops + 1

\* GET /addMeeting
WebMeeting ==
    /\ ops < MaxWebOps /\ Continue
    /\ \E form \in WebForms :
          LET meeting == parse_meeting(form)
              found == web_Search(scheduler, meeting)
          IN  \E rands \in RandInputs :
                LET r == web_Commit(scheduler, meeting, found, Shuffle(rands))
                IN  /\ scheduler' = r.s
                    /\ last' = [op |-> "add_meeting", day |-> "", start_time |-> "",
                                duration_minutes |-> 0, meeting |-> meeting,
                                ret |-> r.ret]
    /\ pre' = scheduler
    /\ ops' = ops + 1

\* GET /clearSession
WebClear ==
    /\ ops < MaxWebOps /\ Continue
    /\ scheduler' = web_init_scheduler(scheduler)
    /\ last' = [op |-> "clear", day |-> "", start_time |-> "", duration_minutes |-> 0,
                meeting |-> NoMeeting, ret |-> TRUE]
    /\ pre' = scheduler
    /\ ops' = ops + 1

NextWeb == WebReservation \/ WebMeeting \/ WebClear

SpecWeb == InitWeb /\ [][NextWeb]_vars

\* Calls of the slot calendar: find_slot_index on the labels of TIME_SLOTS,
\* the two break labels and three strings that are no label, and the label
\* and the wall-clock time of each index; last holds the call and its results
MaxSlotOps == 4

SlotInputs ==
    {TIME_SLOTS[i] : i \in 1 .. MAX_SLOTS}
        \cup {BREAK_SLOTS[1], BREAK_SLOTS[2], "17:00", "9:00", ""}

\* find_slot_index(time), and the label of the index it returns
FindSlotIndex ==
    /\ ops < MaxSlotOps
    /\ \E time \in SlotInputs : \E slot_idx \in {find_slot_index(time)} :
          last' = [op |-> "find_slot_index", time |-> time, slot_idx |-> slot_idx,
                   label |-> IF slot_idx >= 0 THEN TIME_SLOTS[slot_idx + 1] ELSE ""]
    /\ ops' = ops + 1
    /\ UNCHANGED <<scheduler, pre>>

\* TIME_SLOTS[slot_idx] and slot_to_hour(slot_idx), and the index
\* find_slot_index returns for that label
SlotToHour ==
    /\ ops < MaxSlotOps
    /\ \E slot_idx \in SlotIdx :
          last' = [op |-> "slot_to_hour", slot_idx |-> slot_idx,
                   label |-> TIME_SLOTS[slot_idx + 1],
                   back |-> find_slot_index(TIME_SLOTS[slot_idx + 1]),
                   hour |-> slot_to_hour(slot_idx)]
    /\ ops' = ops + 1
    /\ UNCHANGED <<scheduler, pre>>

NextSlot == FindSlotIndex \/ SlotToHour

SpecSlot == Init /\ [][NextSlot]_vars

---------------------------------------------------------------------------
(* Vocabulary of the properties.  It is stated from the data model (labels, *)
(* slots, weeks, cells), not from the operators that model the functions.   *)

DayLabels == {DAYS[i] : i \in 1 .. MAX_DAYS}
TimeLabels == {TIME_SLOTS[i] : i \in 1 .. MAX_SLOTS}

\* index of a recognized label
DayOf(day) == CHOOSE d \in DayIdx : DAYS[d + 1] = day
SlotOf(time) == CHOOSE t \in SlotIdx : TIME_SLOTS[t + 1] = time

\* wall-clock start of a slot in half hours: 09:00 is 18, 11:30 is 23, 13:00 is 26
HalfHourOf(t) == IF t < 6 THEN 18 + t ELSE 20 + t

Covered(start, duration) == start .. (start + duration - 1)

\* all covered slots exist and are free in week w of grid g
FreeIn(g, w, d, start, duration) ==
    /\ start + duration <= MAX_SLOTS
    /\ HalfHourOf(start) + duration <= 34
    /\ \A t \in Covered(start, duration) : ~ g[w][d][t]

EntryCells(e) == {<<e.week, e.day, t>> : t \in Covered(e.start_time, e.duration)}

ReservationCells(r) ==
    {<<w, DayOf(r.day), t>> : w \in Weeks, t \in Covered(SlotOf(r.start_time), r.duration)}

\* the cells of every committed record, entries first
RecordCells(s) ==
    [i \in 1 .. Len(s.schedule) |-> EntryCells(s.schedule[i])]
        \o [j \in 1 .. Len(s.reservations) |-> ReservationCells(s.reservations[j])]

\* the entries the last request appended
NewEntries == SubSeq(scheduler.schedule, Len(pre.schedule) + 1, Len(scheduler.schedule))

AppendedOnly ==
    /\ Len(scheduler.schedule) >= Len(pre.schedule)
    /\ SubSeq(scheduler.schedule, 1, Len(pre.schedule)) = pre.schedule

Unchanged == scheduler = pre

LastReserve == last.op = "reserve"
LastMeeting == last.op = "add_meeting"

\* the last reservation request passes every input and range check
ReserveInputGood ==
    /\ last.day \in DayLabels
    /\ last.start_time \in TimeLabels
    /\ last.duration_minutes \in {30, 60, 90}
    /\ HalfHourOf(SlotOf(last.start_time)) + last.duration_minutes \div 30 <= 34

ReserveSlots == Covered(SlotOf(last.start_time), last.duration_minutes \div 30)

\* the day and time candidates of the last meeting request
FixedDayGiven == last.meeting.fixed_day \in DayLabels
FixedTimeGiven == last.meeting.fixed_time \in TimeLabels

CandidateDays ==
    IF FixedDayGiven THEN {DayOf(last.meeting.fixed_day)} ELSE DayIdx

CandidateTimes ==
    IF FixedTimeGiven THEN {SlotOf(last.meeting.fixed_time)}
    ELSE IF last.meeting.preferred_hours[1] >= 0
    THEN {last.meeting.preferred_hours[i] : i \in 1 .. PREF_LEN} \cap SlotIdx
    ELSE SlotIdx

\* (d, t) had the weeks the frequency of the last request needs, before the call
Supplies(d, t) ==
    LET free(w) == FreeIn(pre.blocked_slots, w, d, t, last.meeting.duration)
    IN  IF last.meeting.frequency = "weekly" THEN \A w \in Weeks : free(w)
        ELSE IF last.meeting.frequency = "fortnightly"
        THEN (free(0) /\ free(2)) \/ (free(1) /\ free(3))
        ELSE \E w \in Weeks : free(w)

\* the day's meeting load before the call is over 2.5 hours per week:
\* meetingHours / 4 > 2.5, in half hours
OverCap(d) == pre.meeting_hours[d] > 20

\* day and start slot of the entries the last request appended
ChosenDay == NewEntries[1].day
ChosenTime == NewEntries[1].start_time
ChosenWeeks == {NewEntries[i].week : i \in 1 .. Len(NewEntries)}

\* the slot of the last request was free in week w of day d before the call
FreeBefore(w, d, t) == FreeIn(pre.blocked_slots, w, d, t, last.meeting.duration)

\* day d is not skipped and has a time candidate with the weeks needed
QualifyingDay(d) == ~ OverCap(d) /\ \E t \in CandidateTimes : Supplies(d, t)

\* the time candidate list of the last request, in trying order
TimeList ==
    IF FixedTimeGiven THEN <<SlotOf(last.meeting.fixed_time)>>
    ELSE IF last.meeting.preferred_hours[1] >= 0
    THEN SelectSeq(last.meeting.preferred_hours, LAMBDA h : h \in SlotIdx)
    ELSE [n \in 1 .. MAX_SLOTS |-> n - 1]

\* first position of slot t in the time candidate list
TimePos(t) == CHOOSE n \in 1 .. Len(TimeList) :
                  TimeList[n] = t /\ \A m \in 1 .. (n - 1) : TimeList[m] # t

\* candidate (d, t) of the last request: the day is not skipped and the slot
\* has the weeks the frequency needs
QualifyingCandidate(d, t) ==
    d \in CandidateDays /\ ~ OverCap(d) /\ t \in CandidateTimes /\ Supplies(d, t)

\* the same average projected hours as the chosen candidate
SameAverage(d) == pre.total_hours[d] = pre.total_hours[ChosenDay]

\* the chosen candidate comes no later than (d, t) in the day order (days of
\* equal load in Monday..Thursday order), then in the time candidate list
ChosenNoLaterThan(d, t) ==
    \/ ChosenDay < d
    \/ (ChosenDay = d /\ TimePos(ChosenTime) <= TimePos(t))

\* both weeks of pairing {0,2} were free at (d, t) before the call
PairZeroTwoFree(d, t) == FreeBefore(0, d, t) /\ FreeBefore(2, d, t)

---------------------------------------------------------------------------
(* Properties *)

\* C1: a reserve call with valid inputs that meets an occupied covered cell
\* in some week returns false and leaves grid, ledger and loads unchanged.
C1_ReserveConflictChangesNothing ==
    (LastReserve /\ ReserveInputGood
       /\ \E w \in Weeks, t \in ReserveSlots :
             pre.blocked_slots[w][DayOf(last.day)][t])
    => (~ last.ret /\ Unchanged)

\* C2: no (week, day, slot) cell is covered by two different committed
\* records (entries and reservations, a reservation covering all four weeks).
C2_NoDoubleBooking ==
    LET cells == RecordCells(scheduler)
    IN  \A i, j \in 1 .. Len(cells) : i # j => cells[i] \cap cells[j] = {}

C2_Witness ==
    \E i \in 1 .. Len(scheduler.schedule), j \in 1 .. Len(scheduler.reservations) :
        scheduler.schedule[i].day = DayOf(scheduler.reservations[j].day)

\* C3: when reserve returns true, every covered slot of the day is occupied
\* in all four weeks right after the call.
C3_ReserveBlocksAllWeeks ==
    (LastReserve /\ last.ret)
    => \A w \in Weeks, t \in ReserveSlots :
          scheduler.blocked_slots[w][DayOf(last.day)][t]

C3_Witness ==
    LastReserve /\ last.ret /\ last.duration_minutes = 90 /\ Len(pre.schedule) > 0

\* C4: a successful weekly placeMeeting appends exactly 4 entries, one for
\* each of the weeks 0..3, all with the same day and start slot.
C4_WeeklyFourDistinctWeeks ==
    (LastMeeting /\ last.meeting.frequency = "weekly" /\ last.ret)
    => /\ AppendedOnly
       /\ Len(NewEntries) = 4
       /\ {NewEntries[i].week : i \in 1 .. Len(NewEntries)} = Weeks
       /\ \A i \in 1 .. Len(NewEntries) :
             /\ NewEntries[i].day = NewEntries[1].day
             /\ NewEntries[i].start_time = NewEntries[1].start_time

C4_Witness ==
    /\ LastMeeting /\ last.meeting.frequency = "weekly" /\ last.ret
    /\ Len(pre.reservations) > 0

\* C5: a successful fortnightly placeMeeting appends exactly 2 entries with
\* the same day and start slot whose weeks are exactly {0,2} or exactly {1,3}.
C5_FortnightlyPairing ==
    (LastMeeting /\ last.meeting.frequency = "fortnightly" /\ last.ret)
    => /\ AppendedOnly
       /\ Len(NewEntries) = 2
       /\ NewEntries[1].day = NewEntries[2].day
       /\ NewEntries[1].start_time = NewEntries[2].start_time
       /\ {NewEntries[1].week, NewEntries[2].week} \in {{0, 2}, {1, 3}}

C5_Witness ==
    /\ LastMeeting /\ last.meeting.frequency = "fortnightly" /\ last.ret
    /\ Len(NewEntries) = 2
    /\ {NewEntries[1].week, NewEntries[2].week} = {1, 3}

\* C6: with a recognized fixed day D and fixed time T every committed entry
\* has day D and start T, and when (D, T) cannot supply the occurrence count
\* the call fails and appends and changes nothing.
C6_FixedDayAndTime ==
    (LastMeeting /\ FixedDayGiven /\ FixedTimeGiven)
    => LET D == DayOf(last.meeting.fixed_day)
           T == SlotOf(last.meeting.fixed_time)
       IN  /\ AppendedOnly
           /\ \A i \in 1 .. Len(NewEntries) :
                 NewEntries[i].day = D /\ NewEntries[i].start_time = T
           /\ ~ Supplies(D, T) => (~ last.ret /\ Unchanged)

C6_Witness ==
    /\ LastMeeting /\ FixedDayGiven /\ FixedTimeGiven
    /\ ~ Supplies(DayOf(last.meeting.fixed_day), SlotOf(last.meeting.fixed_time))
    /\ \E t \in SlotIdx : Supplies(DayOf(last.meeting.fixed_day), t)
    /\ ~ last.ret

\* C7: the wall-clock interval of every committed entry and reservation,
\* hourOf(start) to hourOf(start) + 0.5 * duration, does not intersect the
\* break hour 12:00-13:00 and ends at or before 17:00.
C7_NoBreakNoOverrun ==
    LET Clear(start, duration) ==
            /\ ~ (HalfHourOf(start) < 26 /\ HalfHourOf(start) + duration > 24)
            /\ HalfHourOf(start) + duration <= 34
    IN  /\ \A i \in 1 .. Len(scheduler.schedule) :
              Clear(scheduler.schedule[i].start_time, scheduler.schedule[i].duration)
        /\ \A j \in 1 .. Len(scheduler.reservations) :
              Clear(SlotOf(scheduler.reservations[j].start_time),
                    scheduler.reservations[j].duration)

\* C8: when no (day, time) candidate of a placeMeeting request can supply
\* the occurrence count, the call fails and grid, entries, ledger and loads
\* are unchanged.
C8_NoCandidateChangesNothing ==
    (LastMeeting /\ ~ \E d \in CandidateDays, t \in CandidateTimes : Supplies(d, t))
    => (~ last.ret /\ Unchanged)

\* some but not all weeks of the only candidate, one of a preferred list,
\* were free
C8_Witness ==
    /\ LastMeeting /\ ~ last.ret
    /\ ~ FixedTimeGiven /\ last.meeting.preferred_hours[1] >= 0
    /\ ~ \E d \in CandidateDays, t \in CandidateTimes : Supplies(d, t)
    /\ \E d \in CandidateDays, t \in CandidateTimes, w \in Weeks :
          FreeIn(pre.blocked_slots, w, d, t, last.meeting.duration)

\* C9: reserve with an unrecognized day or start label, a duration other
\* than 30, 60 or 90 minutes, or an end after 17:00 returns false and changes
\* nothing; a reservation ending exactly at 17:00 on free slots is accepted.
C9_ReserveRejectsInvalidInput ==
    /\ (LastReserve /\ ~ ReserveInputGood) => (~ last.ret /\ Unchanged)
    /\ (LastReserve /\ ReserveInputGood
          /\ HalfHourOf(SlotOf(last.start_time)) + last.duration_minutes \div 30 = 34
          /\ \A w \in Weeks, t \in ReserveSlots :
                ~ pre.blocked_slots[w][DayOf(last.day)][t])
       => last.ret

\* a bad duration asked of a scheduler that already holds records
C9_Witness ==
    /\ LastReserve /\ ~ last.ret
    /\ last.day \in DayLabels /\ last.start_time \in TimeLabels
    /\ last.duration_minutes \notin {30, 60, 90}
    /\ Len(pre.schedule) + Len(pre.reservations) > 0

\* C10: after clear() both lists are empty, every grid cell of every week is
\* free and totalHours and meetingHours are 0 for all four days.
C10_ClearRestoresInitialState ==
    last.op = "clear"
    => /\ scheduler.schedule = <<>>
       /\ scheduler.reservations = <<>>
       /\ \A w \in Weeks, d \in DayIdx, t \in SlotIdx : ~ scheduler.blocked_slots[w][d][t]
       /\ \A d \in DayIdx : scheduler.total_hours[d] = 0 /\ scheduler.meeting_hours[d] = 0

C10_Witness ==
    /\ last.op = "clear"
    /\ Len(pre.schedule) > 0
    /\ \E w \in Weeks, d \in DayIdx, t \in SlotIdx : pre.blocked_slots[w][d][t]
    /\ \E d \in DayIdx : pre.total_hours[d] > 0 /\ pre.meeting_hours[d] > 0

\* C11: after a successful reserve(day, start, m), a later reserve on the
\* same day with the same start label and a duration of 30, 60 or 90 minutes,
\* with no clear in between, returns false and leaves grid, ledger and loads
\* unchanged.  (The ledger holds the successful reservations since the last
\* clear.)
C11_RepeatedReserveRejected ==
    (LastReserve /\ last.duration_minutes \in {30, 60, 90}
       /\ \E j \in 1 .. Len(pre.reservations) :
             /\ pre.reservations[j].day = last.day
             /\ pre.reservations[j].start_time = last.start_time)
    => (~ last.ret /\ Unchanged)

\* the repeated request is longer than the first one: slots after the start
\* were free
C11_Witness ==
    /\ LastReserve /\ ~ last.ret
    /\ \E j \in 1 .. Len(pre.reservations) :
          /\ pre.reservations[j].day = last.day
          /\ pre.reservations[j].start_time = last.start_time
          /\ pre.reservations[j].duration < last.duration_minutes \div 30
    /\ \A w \in Weeks :
          ~ pre.blocked_slots[w][DayOf(last.day)][SlotOf(last.start_time) + 1]

\* C13: a successful reserve(day, start, durationMinutes) appends exactly one
\* Reservation record (day, start, durationMinutes / 30), adds
\* durationSlots * 0.5 * 4 hours to totalHours of that day, and leaves
\* meetingHours, totalHours of the other days, the entries and the grid cells
\* of the other days unchanged.
C13_ReserveFrame ==
    (LastReserve /\ last.ret)
    => LET D == DayOf(last.day)
           n == last.duration_minutes \div 30
       IN  /\ scheduler.reservations =
                  Append(pre.reservations,
                         [day |-> last.day, start_time |-> last.start_time, duration |-> n])
           /\ scheduler.total_hours[D] = pre.total_hours[D] + n * 4
           /\ \A d \in DayIdx \ {D} : scheduler.total_hours[d] = pre.total_hours[d]
           /\ scheduler.meeting_hours = pre.meeting_hours
           /\ scheduler.schedule = pre.schedule
           /\ \A w \in Weeks, d \in DayIdx \ {D}, t \in SlotIdx :
                 scheduler.blocked_slots[w][d][t] = pre.blocked_slots[w][d][t]

C13_Witness ==
    /\ LastReserve /\ last.ret /\ last.duration_minutes = 60
    /\ Len(pre.schedule) > 0
    /\ \E d \in DayIdx : pre.meeting_hours[d] > 0

\* C15: across reserve and placeMeeting calls, successful or failed, a grid
\* cell that is occupied stays occupied; only clear() frees an occupied cell.
C15_GridMonotonic ==
    (LastReserve \/ LastMeeting)
    => \A w \in Weeks, d \in DayIdx, t \in SlotIdx :
          pre.blocked_slots[w][d][t] => scheduler.blocked_slots[w][d][t]

\* a meeting was placed on a day and week that already held occupied cells
C15_Witness ==
    /\ LastMeeting /\ last.ret
    /\ \E i \in 1 .. Len(NewEntries), t \in SlotIdx :
          pre.blocked_slots[NewEntries[i].week][NewEntries[i].day][t]

\* C12: a fortnightly placeMeeting appends 0 or 2 entries; when weeks 0 and 2
\* are both free at the chosen day and time it commits {0,2}, and {1,3} only
\* when {0,2} is not fully free; with a fixed day and a fixed time whose slot
\* is free in weeks 0 and 2 and in neither week 1 nor week 3, the request
\* succeeds with weeks {0,2}.
C12_FortnightlyNeverSingleWeek ==
    (LastMeeting /\ last.meeting.frequency = "fortnightly")
    => /\ AppendedOnly
       /\ Len(NewEntries) \in {0, 2}
       /\ Len(NewEntries) = 2
          => /\ (FreeBefore(0, ChosenDay, ChosenTime) /\ FreeBefore(2, ChosenDay, ChosenTime))
                => ChosenWeeks = {0, 2}
             /\ ChosenWeeks = {1, 3}
                => ~ (FreeBefore(0, ChosenDay, ChosenTime) /\ FreeBefore(2, ChosenDay, ChosenTime))
       /\ (FixedDayGiven /\ FixedTimeGiven)
          => LET D == DayOf(last.meeting.fixed_day)
                 T == SlotOf(last.meeting.fixed_time)
             IN  (FreeBefore(0, D, T) /\ FreeBefore(2, D, T)
                    /\ ~ FreeBefore(1, D, T) /\ ~ FreeBefore(3, D, T))
                 => (last.ret /\ Len(NewEntries) = 2 /\ ChosenWeeks = {0, 2})

\* C16: the meeting cap does not apply to fixed-day requests: with a
\* recognized fixed day D whose meetingHours / 4 > 2.5 before the call and a
\* time candidate on D with the weeks needed, the meeting is placed on D.
C16_FixedDayBypassesCap ==
    (LastMeeting /\ FixedDayGiven /\ OverCap(DayOf(last.meeting.fixed_day))
       /\ \E t \in CandidateTimes : Supplies(DayOf(last.meeting.fixed_day), t))
    => /\ last.ret
       /\ Len(NewEntries) > 0
       /\ \A i \in 1 .. Len(NewEntries) : NewEntries[i].day = DayOf(last.meeting.fixed_day)

\* C17: for a request without a fixed day, a day whose meetingHours / 4 > 2.5
\* before the call is never chosen, however many of its slots are free and
\* whatever its reservation load; a day that is not over the meeting cap is
\* not skipped, whatever its reservation load: when it has a candidate with
\* the weeks needed the request succeeds.
C17_OverCapDayNeverChosen ==
    (LastMeeting /\ ~ FixedDayGiven)
    => /\ AppendedOnly
       /\ \A i \in 1 .. Len(NewEntries) : ~ OverCap(NewEntries[i].day)
       /\ (\E d \in DayIdx : QualifyingDay(d)) => last.ret

\* the only day with the weeks needed was over the cap: the request failed
C17_Witness ==
    /\ LastMeeting /\ ~ FixedDayGiven /\ ~ last.ret
    /\ \E d \in DayIdx, t \in CandidateTimes : OverCap(d) /\ Supplies(d, t)

\* C18: when placeMeeting succeeds for a request without a fixed day, the
\* chosen day has the least totalHours among the days that are not skipped by
\* the meeting cap and have a time candidate with the weeks needed; the day
\* order used is the four days sorted ascending by totalHours, ties kept in
\* Monday..Thursday order.
C18_LeastLoadedDay ==
    /\ (LastMeeting /\ ~ FixedDayGiven /\ last.ret)
       => /\ Len(NewEntries) > 0
          /\ \A d \in DayIdx :
                QualifyingDay(d) => pre.total_hours[ChosenDay] <= pre.total_hours[d]
    /\ LET order == day_order_of(scheduler.total_hours)
       IN  /\ {order[i] : i \in DayIdx} = DayIdx
           /\ \A i, j \in DayIdx :
                 i < j => \/ scheduler.total_hours[order[i]] < scheduler.total_hours[order[j]]
                          \/ /\ scheduler.total_hours[order[i]] = scheduler.total_hours[order[j]]
                             /\ order[i] < order[j]

\* the chosen day was not the least loaded of all: every less loaded day
\* lacked the weeks needed
C18_Witness ==
    /\ LastMeeting /\ ~ FixedDayGiven /\ last.ret /\ Len(NewEntries) > 0
    /\ \E d \in DayIdx : pre.total_hours[d] < pre.total_hours[ChosenDay]

\* C14: placeMeeting detects invalid input before any mutation: a request
\* whose fixed day label is non-empty and unrecognized, whose fixed time label
\* is non-empty and unrecognized (the break labels 12:00 and 12:30 included),
\* or whose duration is not 1, 2 or 3 slots returns failure, appends no entry
\* and changes no grid cell or load.
C14_MeetingRejectsInvalidInput ==
    (LastMeeting
       /\ \/ (last.meeting.fixed_day # "" /\ last.meeting.fixed_day \notin DayLabels)
          \/ (last.meeting.fixed_time # "" /\ last.meeting.fixed_time \notin TimeLabels)
          \/ last.meeting.duration \notin {1, 2, 3})
    => (~ last.ret /\ Unchanged)

\* C19: tie-break for every frequency, fortnightly included: among the
\* qualifying candidates with equal average projected hours the chosen day is
\* the earliest qualifying day of the sorted-by-load order and the chosen
\* start is the earliest slot of the time candidate list that qualifies on
\* that day, a fortnightly candidate qualifying when both weeks of at least
\* one pairing are free.
C19_TieBreakEarliest ==
    (LastMeeting /\ last.ret /\ Len(NewEntries) > 0)
    => \A d \in DayIdx, t \in SlotIdx :
          (QualifyingCandidate(d, t) /\ SameAverage(d)) => ChosenNoLaterThan(d, t)

\* C19 as amended: for weekly, monthly and third_week requests as above; a
\* fortnightly request tries all candidates with pairing {0,2} before any with
\* pairing {1,3}: among the qualifying candidates with equal average projected
\* hours, when some are free in weeks 0 and 2 the chosen one is the earliest
\* of those, and otherwise the earliest of all.
C19_TieBreakPairingFirst ==
    (LastMeeting /\ last.ret /\ Len(NewEntries) > 0)
    => LET Tied(d, t) == QualifyingCandidate(d, t) /\ SameAverage(d)
           Preferred(d, t) ==
               /\ Tied(d, t)
               /\ last.meeting.frequency = "fortnightly"
               /\ PairZeroTwoFree(d, t)
       IN  IF \E d \in DayIdx, t \in SlotIdx : Preferred(d, t)
           THEN /\ Preferred(ChosenDay, ChosenTime)
                /\ \A d \in DayIdx, t \in SlotIdx :
                      Preferred(d, t) => ChosenNoLaterThan(d, t)
           ELSE /\ Tied(ChosenDay, ChosenTime)
                /\ \A d \in DayIdx, t \in SlotIdx :
                      Tied(d, t) => ChosenNoLaterThan(d, t)

\* a fortnightly meeting went to a later candidate free in weeks 0 and 2
\* although an earlier day of the same load was free in weeks 1 and 3
C19_Witness ==
    /\ LastMeeting /\ last.ret /\ Len(NewEntries) > 0
    /\ last.meeting.frequency = "fortnightly"
    /\ \E d \in DayIdx, t \in SlotIdx :
          /\ QualifyingCandidate(d, t) /\ SameAverage(d)
          /\ d < ChosenDay

\* C20: with a recognized fixed time the committed start slot is that slot;
\* otherwise, with a non-empty preferred-time list, the committed start slot
\* is a member of the list and the request fails, with no fallback to other
\* slots, when no listed slot qualifies; otherwise any slot 0..13 may be
\* chosen, tried in ascending order: no slot before the chosen one had the
\* committed weeks free on the chosen day.
C20_TimeCandidateSet ==
    LET Listed == ~ FixedTimeGiven /\ last.meeting.preferred_hours[1] >= 0
        ListSlots == {TimeList[n] : n \in 1 .. Len(TimeList)}
    IN  /\ (LastMeeting /\ Len(NewEntries) > 0)
           => /\ AppendedOnly
              /\ \A i \in 1 .. Len(NewEntries) : NewEntries[i].start_time = ChosenTime
              /\ FixedTimeGiven => ChosenTime = SlotOf(last.meeting.fixed_time)
              /\ Listed => ChosenTime \in ListSlots
              /\ (~ FixedTimeGiven /\ ~ Listed)
                 => /\ ChosenTime \in SlotIdx
                    /\ \A t \in 0 .. (ChosenTime - 1) :
                          \E w \in ChosenWeeks : ~ FreeBefore(w, ChosenDay, t)
        /\ (LastMeeting /\ Listed
              /\ ~ \E d \in DayIdx, t \in ListSlots : QualifyingCandidate(d, t))
           => (~ last.ret /\ Unchanged)

\* no listed slot had the weeks, other slots of the day did: the request failed
C20_Witness ==
    /\ LastMeeting /\ ~ last.ret
    /\ ~ FixedTimeGiven /\ last.meeting.preferred_hours[1] >= 0
    /\ Len(TimeList) > 1
    /\ \E d \in CandidateDays, t \in SlotIdx : ~ OverCap(d) /\ Supplies(d, t)

\* the last request was a weekly, third_week or monthly addMeeting
LastSingleOrWeekly ==
    LastMeeting /\ last.meeting.frequency \in {"weekly", "third_week", "monthly"}

\* the last addMeeting returned failure after it had appended an entry and
\* marked its slots
PartialCommit ==
    /\ LastSingleOrWeekly /\ ~ last.ret
    /\ Len(scheduler.schedule) > Len(pre.schedule)
    /\ scheduler.blocked_slots # pre.blocked_slots

C22_FortnightlyCommitNeverFails ==
    (LastMeeting /\ last.meeting.frequency = "fortnightly")
    => /\ (\E d \in DayIdx, t \in SlotIdx : QualifyingCandidate(d, t))
             => (last.ret /\ Len(NewEntries) = 2)
       /\ ~ last.ret
             => (Unchanged /\ ~ \E d \in DayIdx, t \in SlotIdx : QualifyingCandidate(d, t))

\* the re-scan passed over the pairing {0,2} and committed to {1,3}
C22_Witness ==
    /\ LastMeeting /\ last.meeting.frequency = "fortnightly"
    /\ last.ret /\ Len(NewEntries) = 2
    /\ ~ PairZeroTwoFree(ChosenDay, ChosenTime)
    /\ ChosenWeeks = {1, 3}

\* sum of f over the elements of a sequence
SumOver(seq, f(_)) ==
    LET RECURSIVE sum(_, _)
        sum(n, acc) == IF n > Len(seq) THEN acc ELSE sum(n + 1, acc + f(seq[n]))
    IN  sum(1, 0)

\* half hours of the entries of day d, and of the reservations of day d in
\* one week
EntryHalfHours(s, d) ==
    SumOver(s.schedule, LAMBDA e : IF e.day = d THEN e.duration ELSE 0)

ReservedHalfHours(s, d) ==
    SumOver(s.reservations, LAMBDA r : IF DayOf(r.day) = d THEN r.duration ELSE 0)

\* C23: in every reachable state and for every day d, meetingHours[d] is the
\* sum of 0.5 * duration over the schedule entries of day d, and totalHours[d]
\* is meetingHours[d] plus the sum of 0.5 * duration * 4 over the
\* reservations of day d.
C23_LoadsMatchLedgers ==
    \A d \in DayIdx :
       /\ scheduler.meeting_hours[d] = EntryHalfHours(scheduler, d)
       /\ scheduler.total_hours[d] =
             scheduler.meeting_hours[d] + MAX_WEEKS * ReservedHalfHours(scheduler, d)

\* a day that carries entries and a reservation, after a rejected reservation
C23_Witness ==
    /\ LastReserve /\ ~ last.ret
    /\ \E d \in DayIdx :
          /\ EntryHalfHours(scheduler, d) > 0
          /\ ReservedHalfHours(scheduler, d) > 0

\* the cells that some committed entry or reservation covers
AccountedCells(s) ==
    LET cells == RecordCells(s)
    IN  UNION {cells[i] : i \in 1 .. Len(cells)}

OccupiedCells(s, d) ==
    {<<w, t>> \in Weeks \X SlotIdx : s.blocked_slots[w][d][t]}

\* C24: in every reachable state a grid cell (week, day, slot) is occupied
\* if and only if a committed entry of that week and day or a reservation of
\* that day covers it; and for every day the number of occupied cells over
\* the four weeks, times 0.5 hours, is totalHours of the day.
C24_GridMatchesLedgers ==
    /\ \A w \in Weeks, d \in DayIdx, t \in SlotIdx :
          scheduler.blocked_slots[w][d][t] <=> <<w, d, t>> \in AccountedCells(scheduler)
    /\ \A d \in DayIdx :
          Cardinality(OccupiedCells(scheduler, d)) = scheduler.total_hours[d]

\* C25: a successful addMeeting appends one entry for each committed week,
\* all on the chosen day and start slot with the duration of the request;
\* after it exactly the cells (committed week, chosen day, covered slot) are
\* newly occupied and every other cell is as before; totalHours and
\* meetingHours of the chosen day have grown by duration * 0.5 per entry;
\* the reservation ledger, the earlier entries and the loads of the other
\* three days are unchanged.
C25_MeetingEffectAndFrame ==
    (LastMeeting /\ last.ret)
    => LET n == Len(NewEntries)
           dur == last.meeting.duration
           Committed(w, d, t) ==
               w \in ChosenWeeks /\ d = ChosenDay /\ t \in Covered(ChosenTime, dur)
       IN  /\ AppendedOnly /\ n >= 1
           /\ Cardinality(ChosenWeeks) = n
           /\ \A i \in 1 .. n :
                 /\ NewEntries[i].day = ChosenDay
                 /\ NewEntries[i].start_time = ChosenTime
                 /\ NewEntries[i].duration = dur
           /\ \A w \in Weeks, d \in DayIdx, t \in SlotIdx :
                 scheduler.blocked_slots[w][d][t] =
                    (Committed(w, d, t) \/ pre.blocked_slots[w][d][t])
           /\ \A w \in Weeks, d \in DayIdx, t \in SlotIdx :
                 Committed(w, d, t) => ~ pre.blocked_slots[w][d][t]
           /\ scheduler.total_hours[ChosenDay] = pre.total_hours[ChosenDay] + n * dur
           /\ scheduler.meeting_hours[ChosenDay] = pre.meeting_hours[ChosenDay] + n * dur
           /\ \A d \in DayIdx \ {ChosenDay} :
                 /\ scheduler.total_hours[d] = pre.total_hours[d]
                 /\ scheduler.meeting_hours[d] = pre.meeting_hours[d]
           /\ scheduler.reservations = pre.reservations

\* a meeting placed on a day that already held an entry and a reservation
C25_Witness ==
    /\ LastMeeting /\ last.ret /\ Len(NewEntries) > 1
    /\ \E i \in 1 .. Len(pre.schedule) : pre.schedule[i].day = ChosenDay
    /\ ReservedHalfHours(pre, ChosenDay) > 0

\* the last request was a third_week or a monthly addMeeting
LastSingle == LastMeeting /\ last.meeting.frequency \in {"third_week", "monthly"}

\* the request that differs from the last one only in carrying the other of
\* the two frequencies
TwinMeeting ==
    [last.meeting EXCEPT
        !.frequency = IF last.meeting.frequency = "monthly" THEN "third_week" ELSE "monthly"]

\* what a request does from the state before the last call, for each of the
\* week orders: failure, or success with one (week, day, slot) placement
OutcomesOf(meeting) ==
    LET found == Search(pre, meeting)
        Outcome(rands) ==
            LET r == Commit(pre, meeting, found, rands)
                added == SubSeq(r.s.schedule, Len(pre.schedule) + 1, Len(r.s.schedule))
            IN  [ret |-> r.ret,
                 placed |-> {<<added[i].week, added[i].day, added[i].start_time>> :
                                i \in 1 .. Len(added)}]
    IN  {Outcome(rands) : rands \in CommitRands}

\* C26: a successful third_week or monthly addMeeting appends exactly one
\* entry, and from the state before the call the request that differs only
\* in carrying the other of the two frequencies has the same result and the
\* same set of possible (week, day, slot) placements; the placement made is
\* one of them.
C26_ThirdWeekIsMonthly ==
    LastSingle
    => /\ last.ret => (AppendedOnly /\ Len(NewEntries) = 1)
       /\ OutcomesOf(TwinMeeting) = OutcomesOf(last.meeting)
       /\ [ret |-> last.ret,
           placed |-> {<<NewEntries[i].week, NewEntries[i].day, NewEntries[i].start_time>> :
                          i \in 1 .. Len(NewEntries)}] \in OutcomesOf(TwinMeeting)

\* a third_week request placed in a week that depends on the week order
C26_Witness ==
    /\ LastSingle /\ last.meeting.frequency = "third_week"
    /\ last.ret /\ Len(NewEntries) = 1
    /\ Cardinality(OutcomesOf(TwinMeeting)) > 1
    /\ \E w \in Weeks : ~ FreeBefore(w, ChosenDay, ChosenTime)

\* C27: a successful third_week or monthly addMeeting commits a week in
\* which all covered slots of the chosen day and start slot were free before
\* the call, and every week in which they were free is the committed week
\* for some order of the four weeks.
C27_AnyValidWeek ==
    (LastSingle /\ last.ret /\ Len(NewEntries) = 1)
    => /\ FreeBefore(NewEntries[1].week, ChosenDay, ChosenTime)
       /\ \A w \in Weeks :
             FreeBefore(w, ChosenDay, ChosenTime)
             => \E o \in OutcomesOf(last.meeting) :
                   o.ret /\ o.placed = {<<w, ChosenDay, ChosenTime>>}

\* a week was taken, and the committed week is not the first of the free ones
C27_Witness ==
    /\ LastSingle /\ last.ret /\ Len(NewEntries) = 1
    /\ \E w \in Weeks : ~ FreeBefore(w, ChosenDay, ChosenTime)
    /\ \E w \in Weeks : w < NewEntries[1].week /\ FreeBefore(w, ChosenDay, ChosenTime)

\* seq is an initial part of longer, record for record
IsPrefix(seq, longer) ==
    Len(seq) <= Len(longer) /\ SubSeq(longer, 1, Len(seq)) = seq

\* C28: across reserve and addMeeting calls every record already in the
\* schedule and in the reservation ledger keeps its place and all its
\* fields, and neither count decreases; records disappear only through
\* clear, which removes all of them at once.
C28_LedgersAppendOnly ==
    /\ (LastReserve \/ LastMeeting)
       => /\ IsPrefix(pre.schedule, scheduler.schedule)
          /\ IsPrefix(pre.reservations, scheduler.reservations)
    /\ (~ IsPrefix(pre.schedule, scheduler.schedule)
          \/ ~ IsPrefix(pre.reservations, scheduler.reservations))
       => (last.op = "clear" /\ scheduler.schedule = <<>> /\ scheduler.reservations = <<>>)

\* a request that appended to a ledger while both ledgers held records
C28_Witness ==
    /\ LastReserve \/ LastMeeting
    /\ Len(pre.schedule) > 0 /\ Len(pre.reservations) > 0
    /\ Len(scheduler.schedule) + Len(scheduler.reservations)
          > Len(pre.schedule) + Len(pre.reservations)

\* C30: after any sequence of reserve, addMeeting and clear calls the number
\* of reservation records is at most MAX_RESERVATIONS, the length of the
\* reservations array.
C30_ReservationCapacity ==
    Len(scheduler.reservations) <= MAX_RESERVATIONS

\* the last step was the commit phase of a placement whose search ran as a
\* step of its own
LastCommitPhase == LastMeeting /\ "read" \in DOMAIN last

\* the commit phase started from the grid the search phase had read
SawSearchedGrid == pre.blocked_slots = last.read

\* C29: a weekly addMeeting whose commit phase starts from the grid its
\* search phase read returns success with its four entries whenever the
\* search chose a day and time, and returns failure with nothing changed
\* otherwise; a weekly addMeeting returns failure with entries committed only
\* when a request of another caller changed the grid between its two phases,
\* and then with 1 to 3 entries.
C29_ExclusivityNeeded ==
    (LastCommitPhase /\ last.meeting.frequency = "weekly")
    => /\ SawSearchedGrid
          => IF last.found.chosen_day # -1 /\ last.found.chosen_time # -1
             THEN last.ret /\ Len(NewEntries) = 4
             ELSE ~ last.ret /\ Unchanged
       /\ (~ last.ret /\ scheduler # pre)
          => (~ SawSearchedGrid /\ Len(NewEntries) \in 1 .. 3)

\* a weekly placement that failed with entries committed
C29_Witness ==
    /\ LastCommitPhase /\ last.meeting.frequency = "weekly"
    /\ ~ last.ret /\ Len(NewEntries) \in 1 .. 3
    /\ ~ SawSearchedGrid

\* the grid cells held by the entries of the schedule
ScheduleCells(s) == UNION {EntryCells(s.schedule[i]) : i \in 1 .. Len(s.schedule)}

GridCells == Weeks \X DayIdx \X SlotIdx

\* C31: when every meeting of the schedule lasts 1, 2 or 3 slots, every
\* entry holds at least one grid cell that no other entry holds, so the
\* number of entries never exceeds the 224 cells of the grid (4 weeks x 4 days
\* x 14 slots) nor the capacity MAX_MEETINGS * MAX_WEEKS of the schedule array.
C31_ScheduleCapacity ==
    (\A i \in 1 .. Len(scheduler.schedule) : scheduler.schedule[i].duration \in 1 .. 3)
    => /\ ScheduleCells(scheduler) \subseteq GridCells
       /\ Len(scheduler.schedule) <= Cardinality(ScheduleCells(scheduler))
       /\ Len(scheduler.schedule) <= MAX_WEEKS * MAX_DAYS * MAX_SLOTS
       /\ Len(scheduler.schedule) <= MAX_MEETINGS * MAX_WEEKS

\* five weekly meetings and one more successful request are in the schedule
C31_Witness ==
    /\ LastMeeting /\ last.ret
    /\ Len(scheduler.schedule) > 5 * MAX_WEEKS
    /\ \A i \in 1 .. Len(scheduler.schedule) : scheduler.schedule[i].duration \in 1 .. 3

\* every meeting of the schedule lasts 1, 2 or 3 slots
ShortMeetingsOnly ==
    \A i \in 1 .. Len(scheduler.schedule) : scheduler.schedule[i].duration \in 1 .. 3

\* C32: with meeting durations of 1, 2 or 3 slots, meeting_hours of every
\* day is at most 16 hours (32 half hours): a request, with or without a fixed
\* day, is only placed on a day whose meeting_hours is at most 10 hours, and
\* one placement adds at most 4 * 1.5 = 6 hours to that day and nothing to the
\* other days.
C32_MeetingLoadBound ==
    ShortMeetingsOnly
    => /\ \A d \in DayIdx : scheduler.meeting_hours[d] <= 32
       /\ (LastMeeting /\ last.ret)
          => /\ pre.meeting_hours[ChosenDay] <= 20
             /\ scheduler.meeting_hours[ChosenDay] - pre.meeting_hours[ChosenDay] <= 12
             /\ \A d \in DayIdx \ {ChosenDay} :
                   scheduler.meeting_hours[d] = pre.meeting_hours[d]

\* a weekly 90-minute request with a fixed day is placed on a day that stands
\* at exactly 10 hours and takes it to 16
C32_Witness ==
    /\ LastMeeting /\ last.ret /\ FixedDayGiven
    /\ ShortMeetingsOnly
    /\ pre.meeting_hours[ChosenDay] = 20
    /\ scheduler.meeting_hours[ChosenDay] = 32

\* the values of rand() % 4, rand() % 3 and rand() % 2 of one shuffle: one
\* triple for each of the 24 orders of the four weeks
AllDraws == {<<a, b, c>> : a \in 0 .. 3, b \in 0 .. 2, c \in 0 .. 1}

\* the entries of a sequence, as a set
EntrySet(entries) == {entries[i] : i \in 1 .. Len(entries)}

\* what the last request does from the state before the call, its search
\* having found the candidate found, when the shuffle draws rands
Redrawn(found, rands) == Commit(pre, last.meeting, found, rands)

\* C33: from the state before an addMeeting call, for every order of the
\* weeks the shuffle can draw, the result, the number of entries appended,
\* their day and start slot, the reservation ledger and both load arrays are
\* the same as in the call that was made; for weekly and fortnightly requests
\* the grid and the set of entries appended are also the same, and for
\* fortnightly requests the whole state is; what varies is the week of a
\* third_week or monthly entry and the order of the entries of a weekly one.
C33_RandomnessOnlyWeeks ==
    LastMeeting
    => \A found \in {Search(pre, last.meeting)} : \A rands \in AllDraws :
          LET r == Redrawn(found, rands)
              added == SubSeq(r.s.schedule, Len(pre.schedule) + 1, Len(r.s.schedule))
              NoWeek(e) == [e EXCEPT !.week = 0]
          IN  /\ r.ret = last.ret
              /\ IsPrefix(pre.schedule, r.s.schedule)
              /\ Len(added) = Len(NewEntries)
              /\ {NoWeek(e) : e \in EntrySet(added)} = {NoWeek(e) : e \in EntrySet(NewEntries)}
              /\ r.s.reservations = scheduler.reservations
              /\ r.s.total_hours = scheduler.total_hours
              /\ r.s.meeting_hours = scheduler.meeting_hours
              /\ last.meeting.frequency \in {"weekly", "fortnightly"}
                 => /\ r.s.blocked_slots = scheduler.blocked_slots
                    /\ EntrySet(added) = EntrySet(NewEntries)
              /\ last.meeting.frequency = "fortnightly" => r.s = scheduler

\* a weekly request that another order of the weeks appends in another
\* order, after a monthly request that another order places in another week
C33_Witness ==
    /\ LastMeeting /\ last.ret /\ last.meeting.frequency = "weekly"
    /\ \E found \in {Search(pre, last.meeting)} : \E rands \in AllDraws :
          Redrawn(found, rands).s.schedule # scheduler.schedule
    /\ Len(pre.schedule) > 0
    /\ pre.schedule[1].frequency \in {"monthly", "third_week"}

\* the last request was a weekly, third_week or monthly addMeeting
LastNotFortnightly ==
    LastMeeting /\ last.meeting.frequency \in {"weekly", "third_week", "monthly"}

\* C34: from every state scheduler_web.c reaches, a weekly, third_week or
\* monthly request gives with cweb.c's add_meeting, for each order of the
\* weeks, the result and the struct (entries, grid, ledger and both loads)
\* that scheduler_web.c's add_meeting gives for that order, the call that was
\* made being one of them; a reserve request gives with cweb.c's
\* reserve_slot the result and the struct of the call that was made, and
\* init_scheduler of either file gives the same struct, from the
\* uninitialized object and at clear.
C34_ImplementationsAgree ==
    /\ LastNotFortnightly
       => \A wfound \in {web_Search(pre, last.meeting)} :
          \A cfound \in {Search(pre, last.meeting)} :
             /\ \A rands \in AllDraws :
                   web_Commit(pre, last.meeting, wfound, Shuffle(rands))
                      = Commit(pre, last.meeting, cfound, rands)
             /\ \E rands \in AllDraws :
                   Commit(pre, last.meeting, cfound, rands) = [s |-> scheduler, ret |-> last.ret]
    /\ LastReserve
       => reserve_slot(pre, last.day, last.start_time, last.duration_minutes)
             = [s |-> scheduler, ret |-> last.ret]
    /\ last.op = "clear" => init_scheduler(pre) = scheduler
    /\ last.op = "init" => \E garbage \in Uninitialized : init_scheduler(garbage) = scheduler

\* a monthly request with a preferred list placed on Tuesday after a
\* reservation there, in a week that depends on the order drawn
C34_Witness ==
    /\ LastNotFortnightly /\ last.ret
    /\ last.meeting.frequency = "monthly"
    /\ PreferredCount(last.meeting.preferred_hours) > 1
    /\ Len(pre.reservations) > 0
    /\ NewEntries[1].week > 0

\* C35: in scheduler_web.c a successful fortnightly addMeeting has appended
\* exactly 2 entries whose weeks are exactly {0,2} or exactly {1,3}.
C35_WebFortnightlyPairing ==
    (LastMeeting /\ last.ret /\ last.meeting.frequency = "fortnightly")
    => /\ AppendedOnly
       /\ Len(NewEntries) = 2
       /\ ChosenWeeks \in {{0, 2}, {1, 3}}

\* C36: TIME_SLOTS holds 14 different labels; find_slot_index of the label
\* of an index is that index, and the label of the index find_slot_index
\* returns for one of the 14 labels is that label; "12:00" and "12:30" have
\* no index (find_slot_index returns -1); slot_to_hour of index i, in half
\* hours, is 18 + i for i <= 5 and 20 + i for i >= 6.
C36_SlotCalendarRoundTrip ==
    /\ Cardinality(TimeLabels) = 14
    /\ last.op = "slot_to_hour"
       => /\ last.back = last.slot_idx
          /\ last.hour = IF last.slot_idx <= 5 THEN 18 + last.slot_idx
                         ELSE 20 + last.slot_idx
    /\ last.op = "find_slot_index"
       => /\ last.time \in TimeLabels
             => (last.slot_idx \in SlotIdx /\ last.label = last.time)
          /\ last.time \in {"12:00", "12:30"} => last.slot_idx = -1

\* the first index after the break, 13:00, and its way back
C36_Witness ==
    /\ last.op = "slot_to_hour"
    /\ last.slot_idx = 6 /\ last.label = "13:00" /\ last.hour = 26
    /\ last.back = 6

====
